---- MODULE Spec2Model ----
(***************************************************************************)
(* FileOrganizer (src/file_organizer.py): the plan executor, the plan      *)
(* builder by file type, the directory pruning, the preview window         *)
(* (Execute / Yes / No / Cancel), the cancellable scan and the folder      *)
(* selection, over a small model of the filesystem.                        *)
(*                                                                         *)
(* A file or directory name is the record [base, sfx, ext]: the text       *)
(* base + " (n1)" + " (n2)" ... + "." + ext, with sfx = <<n1, n2, ...>>    *)
(* the counters appended by generate_unique_filename and ext = "" for a    *)
(* name without extension.  A path is the sequence of its names.           *)
(***************************************************************************)
EXTENDS Integers, Sequences, FiniteSets, TLC

VARIABLES
    files,                  \* filesystem: path of a regular file -> identity of its content
    dirs,                   \* filesystem: the paths that are directories
    path,                   \* self.path: the selected folder
    include_subfolders,     \* self.include_subfolders
    delete_empty_folders,   \* self.delete_empty_folders
    preview,                \* self.preview: the stored plan, a list of <<src, dst>>
    cancel_scan,            \* self.cancel_scan
    dialog,                 \* the processing dialog exists
    scan,                   \* the preview-generation worker threads
    run,                    \* the execution worker threads
    wins,                   \* the preview windows
    afterQ,                 \* callbacks scheduled with root.after(0, ...), in order
    faults,                 \* exceptions raised inside Tk callbacks so far
    executed,               \* history: a run has finished since the last show_preview
    removed,                \* number of files removed by other programs so far
    probe,                  \* the last function applied on its own: its inputs and result
    options                 \* date_source, date_format, location_granularity, HAS_PIL

vars == <<files, dirs, path, include_subfolders, delete_empty_folders,
          preview, cancel_scan, dialog, scan, run, wins, afterQ, faults, executed,
          removed, probe, options>>

---------------------------------------------------------------------------
(* Bounds *)

MaxFiles == 3       \* regular files in the initial tree
MaxRemoved == 1     \* files removed by other programs during a run
MaxRuns == 2        \* execution threads ever started
MaxScans == 2       \* preview generations ever started

---------------------------------------------------------------------------
(* Names and paths (os.path) *)

Nm(b, s, e) == [base |-> b, sfx |-> s, ext |-> e]

dirname(p) == SubSeq(p, 1, Len(p) - 1)

basename(p) == p[Len(p)]

join(d, n) == Append(d, n)

IsPrefix(p, q) == Len(p) <= Len(q) /\ SubSeq(q, 1, Len(p)) = p

Prefixes(p) == {SubSeq(p, 1, k) : k \in 1..Len(p)}

Root == <<Nm("root", <<>>, "")>>

---------------------------------------------------------------------------
(* Filesystem primitives, as functions of the filesystem <<fl, ds>> *)

Exists(fl, ds, p) == p \in DOMAIN fl \/ p \in ds

Children(fl, ds, d) == {p \in (DOMAIN fl) \cup ds : Len(p) = Len(d) + 1 /\ dirname(p) = d}

\* os.makedirs(d, exist_ok=True) raises when d or one of its ancestors is a regular file
MakedirsFails(fl, d) == \E q \in Prefixes(d) : q \in DOMAIN fl

\* the directories os.makedirs(d, exist_ok=True) leaves behind: it creates top-down
\* and stops at the first name that is a regular file
Makedirs(fl, ds, d) == ds \cup {q \in Prefixes(d) : \A r \in Prefixes(q) : r \notin DOMAIN fl}

\* shutil.move(src, dst): where the file lands (dst, or inside dst when dst is a directory)
MoveTarget(ds, src, dst) == IF dst \in ds THEN join(dst, basename(src)) ELSE dst

\* shutil.move(src, dst) succeeds: the source is there, the target's directory is
\* there, and a directory target does not already hold the name (os.rename replaces
\* a regular file at the target)
MoveOk(fl, ds, src, dst) ==
    /\ src \in DOMAIN fl
    /\ dirname(MoveTarget(ds, src, dst)) \in ds
    /\ MoveTarget(ds, src, dst) \notin ds
    /\ dst \in ds => MoveTarget(ds, src, dst) \notin DOMAIN fl

MoveFiles(fl, ds, src, dst) ==
    LET real == MoveTarget(ds, src, dst)
    IN  [p \in ((DOMAIN fl) \ {src}) \cup {real} |-> IF p = real THEN fl[src] ELSE fl[p]]

---------------------------------------------------------------------------
(* generate_unique_filename *)

RECURSIVE UniqueFrom(_, _, _, _, _)
\* the while loop: "base (counter)ext" for counter, counter + 1, ... until unoccupied
UniqueFrom(fl, ds, destination, filename, counter) ==
    LET new_filename == Nm(filename.base, Append(filename.sfx, counter), filename.ext)
    IN  IF Exists(fl, ds, join(destination, new_filename))
        THEN UniqueFrom(fl, ds, destination, filename, counter + 1)
        ELSE new_filename

generate_unique_filename_from2(fl, ds, destination, filename) ==
    IF Exists(fl, ds, join(destination, filename))
    THEN UniqueFrom(fl, ds, destination, filename, 2)
    ELSE filename

generate_unique_filename(fl, ds, destination, filename) ==
    IF Exists(fl, ds, join(destination, filename))
    THEN UniqueFrom(fl, ds, destination, filename, 1)
    ELSE filename

---------------------------------------------------------------------------
(* Plan building by type: _generate_preview_by_type *)

\* str.upper() on the extensions that occur in the model
Upper(e) ==
    CASE e = "txt" -> "TXT"
      [] e = "jpg" -> "JPG"
      [] e = "jpeg" -> "JPEG"
      [] e = "bin" -> "BIN"
      [] OTHER -> e

\* (os.path.splitext(file_path)[1][1:] or "NO_EXTENSION").upper()
TypeKey(name) == IF name.ext = "" THEN "NO_EXTENSION" ELSE Upper(name.ext)

\* dest_path = os.path.join(os.path.join(folder, ext.upper()), os.path.basename(file_path))
TypeDestBesideFile(folder, file_path) ==
    join(join(dirname(file_path), Nm(TypeKey(basename(file_path)), <<>>, "")),
         basename(file_path))

TypeDest(folder, file_path) ==
    join(join(folder, Nm(TypeKey(basename(file_path)), <<>>, "")), basename(file_path))

RECURSIVE PlanByType(_, _, _)
\* the processing loop over the enumerated files: entries only for paths that are
\* regular files when the loop reaches them
PlanByType(fl, folder, fileList) ==
    IF fileList = <<>> THEN <<>>
    ELSE LET file_path == Head(fileList)
             rest == PlanByType(fl, folder, Tail(fileList))
         IN  IF file_path \in DOMAIN fl
             THEN <<(<<file_path, TypeDest(folder, file_path)>>)>> \o rest
             ELSE rest

---------------------------------------------------------------------------
(* Categories: category_definitions, get_file_category *)

\* str.lower() on the extensions that occur in the model
Lower(e) ==
    CASE e = "HEIC" -> "heic"
      [] e = "Heic" -> "heic"
      [] e = "JPG" -> "jpg"
      [] e = "Jpeg" -> "jpeg"
      [] e = "SH" -> "sh"
      [] e = "Sh" -> "sh"
      [] e = "PDF" -> "pdf"
      [] e = "TXT" -> "txt"
      [] e = "XYZ" -> "xyz"
      [] OTHER -> e

\* os.path.splitext(file_path)[1]: the extension with its dot, "" when there is none
splitext1(file_path) ==
    IF basename(file_path).ext = "" THEN "" ELSE "." \o basename(file_path).ext

\* default_categories, in the order of the dictionary
category_definitions ==
    << [category |-> "Images",
        extensions |-> {".jpg", ".jpeg", ".png", ".gif", ".bmp", ".tiff", ".webp", ".svg",
                        ".heic"}],
       [category |-> "Documents",
        extensions |-> {".doc", ".docx", ".pdf", ".txt", ".rtf", ".odt", ".xls", ".xlsx",
                        ".ppt", ".pptx", ".csv"}],
       [category |-> "Videos",
        extensions |-> {".mp4", ".mov", ".avi", ".mkv", ".wmv", ".flv", ".webm", ".m4v",
                        ".mpg", ".mpeg", ".mts", ".m2ts", ".3gp"}],
       [category |-> "Audio",
        extensions |-> {".mp3", ".wav", ".aac", ".flac", ".ogg", ".m4a", ".wma", ".aiff"}],
       [category |-> "Archives",
        extensions |-> {".zip", ".rar", ".7z", ".tar", ".gz", ".bz2", ".xz", ".iso"}],
       [category |-> "Code",
        extensions |-> {".py", ".js", ".html", ".css", ".java", ".c", ".cpp", ".php", ".rb",
                        ".go", ".rs", ".ts", ".sh", ".json", ".xml"}],
       [category |-> "Executables",
        extensions |-> {".exe", ".msi", ".app", ".bat", ".sh", ".apk", ".deb", ".rpm"}] >>

RECURSIVE FirstCategory(_, _)
\* the loop over category_definitions.items(): the first category that lists the
\* extension, "Other" when none does
FirstCategory(defs, extension) ==
    IF defs = <<>> THEN "Other"
    ELSE IF extension \in Head(defs).extensions THEN Head(defs).category
         ELSE FirstCategory(Tail(defs), extension)

get_file_category_cased(file_path) ==
    FirstCategory(category_definitions, splitext1(file_path))

get_file_category(file_path) ==
    FirstCategory(category_definitions,
                  IF basename(file_path).ext = "" THEN ""
                  ELSE "." \o Lower(basename(file_path).ext))

---------------------------------------------------------------------------
(* Dates in file names: get_date_from_filename.  A file name is matched as the *)
(* sequence of its characters.                                                 *)

Digits == <<"0", "1", "2", "3", "4", "5", "6", "7", "8", "9">>

IsDigit(c) == \E k \in 1..10 : Digits[k] = c

\* int() of one digit
DigitVal(c) == (CHOOSE k \in 1..10 : Digits[k] = c) - 1

RECURSIVE ToInt(_)
\* int() of a run of digits
ToInt(cs) == IF cs = <<>> THEN 0 ELSE 10 * ToInt(SubSeq(cs, 1, Len(cs) - 1)) + DigitVal(cs[Len(cs)])

\* one position of a pattern: "d" is \d, "s" is [-_], "t" is [0-3], anything else
\* is that character itself
InClass(c, k) ==
    CASE k = "d" -> IsDigit(c)
      [] k = "s" -> c \in {"-", "_"}
      [] k = "t" -> c \in {"0", "1", "2", "3"}
      [] OTHER -> c = k

\* the patterns in the order of the list; year, month and day are the positions
\* of the named groups; generic marks the last pattern, whose month group is
\* 0[1-9]|1[0-2] and which must not touch a digit on either side
patterns ==
    << [classes |-> <<"d", "d", "d", "d", "s", "d", "d", "s", "d", "d">>,
        year |-> <<1, 4>>, month |-> <<6, 7>>, day |-> <<9, 10>>, generic |-> FALSE],
       [classes |-> <<"d", "d", "d", "d", "d", "d", "d", "d">>,
        year |-> <<1, 4>>, month |-> <<5, 6>>, day |-> <<7, 8>>, generic |-> FALSE],
       [classes |-> <<"d", "d", "s", "d", "d", "s", "d", "d", "d", "d">>,
        year |-> <<7, 10>>, month |-> <<4, 5>>, day |-> <<1, 2>>, generic |-> FALSE],
       [classes |-> <<"d", "d", "s", "d", "d", "s", "d", "d", "d", "d">>,
        year |-> <<7, 10>>, month |-> <<1, 2>>, day |-> <<4, 5>>, generic |-> FALSE],
       [classes |-> <<"I", "M", "G", "s", "d", "d", "d", "d", "d", "d", "d", "d", "s">>,
        year |-> <<5, 8>>, month |-> <<9, 10>>, day |-> <<11, 12>>, generic |-> FALSE],
       [classes |-> <<"2", "0", "d", "d", "d", "d", "t", "d">>,
        year |-> <<1, 4>>, month |-> <<5, 6>>, day |-> <<7, 8>>, generic |-> TRUE] >>

\* the pattern matches the characters of filename that start at position i
MatchesAt(pat, filename, i) ==
    /\ i + Len(pat.classes) - 1 <= Len(filename)
    /\ \A k \in 1..Len(pat.classes) : InClass(filename[i + k - 1], pat.classes[k])
    /\ pat.generic =>
        /\ i > 1 => ~IsDigit(filename[i - 1])
        /\ i + 8 <= Len(filename) => ~IsDigit(filename[i + 8])
        /\ ToInt(SubSeq(filename, i + 4, i + 5)) \in 1..12

\* re.search(pattern, filename): the leftmost match, 0 when there is none
search(pat, filename) ==
    IF \E i \in 1..Len(filename) : MatchesAt(pat, filename, i)
    THEN CHOOSE i \in 1..Len(filename) :
             /\ MatchesAt(pat, filename, i)
             /\ \A j \in 1..(i - 1) : ~MatchesAt(pat, filename, j)
    ELSE 0

\* match.group(name) converted with int()
group(filename, i, g) == ToInt(SubSeq(filename, i + g[1] - 1, i + g[2] - 1))

IsLeap(year) == year % 4 = 0 /\ (year % 100 # 0 \/ year % 400 = 0)

DaysInMonth(year, month) ==
    CASE month \in {4, 6, 9, 11} -> 30
      [] month = 2 -> IF IsLeap(year) THEN 29 ELSE 28
      [] OTHER -> 31

\* datetime(year, month, day) raises ValueError unless this holds
IsDate(year, month, day) ==
    /\ year \in 1..9999
    /\ month \in 1..12
    /\ day \in 1..DaysInMonth(year, month)

\* a datetime value, and None
Date(y, m, d) == [year |-> y, month |-> m, day |-> d]

None == [year |-> 0, month |-> 0, day |-> 0]

AcceptedInRange(year, month, day) ==
    /\ 1900 <= year /\ year <= 2100
    /\ 1 <= month /\ month <= 12
    /\ 1 <= day /\ day <= 31

\* the date of a match is returned when the components pass the range test and
\* datetime() accepts them
Accepted(year, month, day) ==
    /\ 1900 <= year /\ year <= 2100
    /\ 1 <= month /\ month <= 12
    /\ 1 <= day /\ day <= 31
    /\ IsDate(year, month, day)

RECURSIVE TryPatterns(_, _)
\* the loop over the patterns, from pattern k on
TryPatterns(filename, k) ==
    IF k > Len(patterns) THEN None
    ELSE LET i == search(patterns[k], filename)
         IN  IF i = 0 THEN TryPatterns(filename, k + 1)
             ELSE LET year == group(filename, i, patterns[k].year)
                      month == group(filename, i, patterns[k].month)
                      day == group(filename, i, patterns[k].day)
                  IN  IF Accepted(year, month, day) THEN Date(year, month, day)
                      ELSE TryPatterns(filename, k + 1)

get_date_from_filename(filename) == TryPatterns(filename, 1)

---------------------------------------------------------------------------
(* The date of a file: get_date_from_exif, get_file_creation_date,          *)
(* get_file_date.  A file is the record [chars, ext, exif, created]: the    *)
(* characters of its name, the extension of the name, the date its embedded *)
(* metadata parses to (None when there is none or it cannot be read) and    *)
(* the date the filesystem reports for it.                                  *)

\* get_date_from_exif: nothing without the imaging library, nothing for a name
\* that does not end in an image extension
get_date_from_exif(has_pil, file) ==
    IF ~has_pil THEN None
    ELSE IF Lower(file.ext) \notin {"jpg", "jpeg", "tiff", "png"} THEN None
         ELSE file.exif

\* get_file_creation_date: the date derived from the timestamps of the file
get_file_creation_date(file) == file.created

get_file_date_exif_always(date_source, has_pil, file) ==
    LET date_from_name == IF date_source \in {"filename", "all"}
                          THEN get_date_from_filename(file.chars) ELSE None
        date_from_exif == get_date_from_exif(has_pil, file)
    IN  IF date_from_name # None
        THEN [date |-> date_from_name, consulted |-> <<"filename">>]
        ELSE IF date_from_exif # None
             THEN [date |-> date_from_exif, consulted |-> <<"exif">>]
             ELSE [date |-> get_file_creation_date(file), consulted |-> <<"filesystem">>]

\* get_file_date: the date returned and, as history, the sources consulted
get_file_date(date_source, has_pil, file) ==
    LET byName == date_source \in {"filename", "all"}
        byExif == date_source \in {"exif", "all"}
        date_from_name == get_date_from_filename(file.chars)
        date_from_exif == get_date_from_exif(has_pil, file)
        c1 == IF byName THEN <<"filename">> ELSE <<>>
        c2 == IF byExif THEN c1 \o <<"exif">> ELSE c1
    IN  IF byName /\ date_from_name # None
        THEN [date |-> date_from_name, consulted |-> c1]
        ELSE IF byExif /\ date_from_exif # None
             THEN [date |-> date_from_exif, consulted |-> c2]
             ELSE [date |-> get_file_creation_date(file),
                   consulted |-> c2 \o <<"filesystem">>]

---------------------------------------------------------------------------
(* Location names: get_location_name.  A coordinate is an integer number of  *)
(* 1/100000 degrees; gps_data is [present, latitude, longitude], present     *)
(* FALSE for None.  The answer of the geocoding service is a record:         *)
(*   [kind |-> "import_error"]   the requests library is not installed       *)
(*   [kind |-> "error"]          requests.get raised (network error)         *)
(*   [kind |-> "http", status, json, address, display_name]                  *)
(* with json FALSE when the body is not JSON, address a function from field  *)
(* names to texts (empty when the key is absent) and display_name the        *)
(* sequence of the comma-separated parts (empty when the key is absent).     *)
(* In a text, "[x]" stands for a character outside ASCII.                    *)

NoGps == [present |-> FALSE, latitude |-> 0, longitude |-> 0]

Gps(lat, lon) == [present |-> TRUE, latitude |-> lat, longitude |-> lon]

\* a number below 10000 as four digits
Pad4(k) ==
    IF k < 10 THEN "000" \o ToString(k)
    ELSE IF k < 100 THEN "00" \o ToString(k)
         ELSE IF k < 1000 THEN "0" \o ToString(k) ELSE ToString(k)

\* format(x, ".4f"): the sign, then the magnitude rounded to four decimals, a tie
\* to the even digit
Format4(x) ==
    LET a == IF x < 0 THEN 0 - x ELSE x
        q == a \div 10
        r == a % 10
        n == IF r > 5 \/ (r = 5 /\ q % 2 = 1) THEN q + 1 ELSE q
    IN  (IF x < 0 THEN "-" ELSE "") \o ToString(n \div 10000) \o "." \o Pad4(n % 10000)

\* f"GPS({lat:.4f},{lon:.4f})"
GpsName(lat, lon) == "GPS(" \o Format4(lat) \o "," \o Format4(lon) \o ")"

\* ''.join(c for c in text if ord(c) < 128) on the texts of the model
AsciiOnly(text) ==
    CASE text = "[kanji]" -> ""
      [] text = "Z[u]rich" -> "Zrich"
      [] OTHER -> text

\* str.strip() on the parts of a display name
Strip(text) ==
    CASE text = " France" -> "France"
      [] text = " Ile-de-France" -> "Ile-de-France"
      [] text = " [kanji]" -> "[kanji]"
      [] OTHER -> text

RECURSIVE JoinComma(_)
\* the display name: its parts with the commas that separate them
JoinComma(parts) ==
    IF Len(parts) = 1 THEN <<parts[1]>>
    ELSE <<parts[1], ",">> \o JoinComma(Tail(parts))

RECURSIVE Filtered(_)
\* the filter applied to a text given as the sequence of its pieces
Filtered(pieces) ==
    IF pieces = <<>> THEN "" ELSE AsciiOnly(Head(pieces)) \o Filtered(Tail(pieces))

CityFields == <<"city", "town", "village", "county", "state", "country">>

\* the pieces of location_name before the filter; <<>> is the empty text
LocationPieces(granularity, response) ==
    LET address == response.address
        found == {k \in 1..Len(CityFields) : CityFields[k] \in DOMAIN address}
    IN  CASE granularity = "country" ->
                 IF "country" \in DOMAIN address THEN <<address["country"]>>
                 ELSE <<"Unknown Country">>
          [] granularity = "city" ->
                 IF found # {}
                 THEN LET field == CityFields[CHOOSE k \in found : \A j \in found : k <= j]
                      IN  IF field # "country" /\ "country" \in DOMAIN address
                          THEN <<address[field], ", ", address["country"]>>
                          ELSE <<address[field]>>
                 ELSE IF response.display_name # <<>>
                      THEN LET parts == response.display_name
                           IN  IF Len(parts) > 2
                               THEN <<Strip(parts[1]), ", ", Strip(parts[Len(parts)])>>
                               ELSE JoinComma(parts)
                      ELSE <<>>
          [] OTHER -> <<>>

get_location_name_on_200_only(gps_data, granularity, response) ==
    LET lat == gps_data.latitude
        lon == gps_data.longitude
    IN  IF ~gps_data.present \/ (lat = 0 /\ lon = 0)
        THEN [name |-> "Unknown Location", log |-> <<>>, raised |-> FALSE]
        ELSE IF response.kind = "http" /\ response.status = 200 /\ response.json
             THEN [name |-> Filtered(LocationPieces(granularity, response)),
                   log |-> <<"request", "location">>, raised |-> FALSE]
             ELSE [name |-> "", log |-> <<"request">>, raised |-> TRUE]

\* get_location_name: the name returned, the lines logged and whether an
\* exception reached the caller
get_location_name(gps_data, granularity, response) ==
    LET lat == gps_data.latitude
        lon == gps_data.longitude
    IN  IF ~gps_data.present \/ (lat = 0 /\ lon = 0)
        THEN [name |-> "Unknown Location", log |-> <<>>, raised |-> FALSE]
        ELSE CASE response.kind = "import_error" ->
                      [name |-> GpsName(lat, lon), log |-> <<"warning">>, raised |-> FALSE]
               [] response.kind = "error" ->
                      [name |-> GpsName(lat, lon), log |-> <<"request", "error">>,
                       raised |-> FALSE]
               [] response.kind = "http" /\ response.status # 200 ->
                      [name |-> GpsName(lat, lon), log |-> <<"request", "api_error">>,
                       raised |-> FALSE]
               [] response.kind = "http" /\ response.status = 200 /\ ~response.json ->
                      [name |-> GpsName(lat, lon), log |-> <<"request", "error">>,
                       raised |-> FALSE]
               [] OTHER ->
                      LET location_name == Filtered(LocationPieces(granularity, response))
                          filtered_name == IF location_name \in {"", " "}
                                           THEN GpsName(lat, lon) ELSE location_name
                      IN  [name |-> filtered_name, log |-> <<"request", "location">>,
                           raised |-> FALSE]

---------------------------------------------------------------------------
(* Directory pruning: is_dir_empty, remove_empty_dirs *)

is_dir_empty(fl, ds, p) == p \in ds /\ Children(fl, ds, p) = {}

RECURSIVE remove_empty_dirs(_, _, _, _)
RECURSIVE PruneEach(_, _, _, _)

\* the loop "for item in os.listdir(path): if isdir(subdir): remove_empty_dirs(subdir)"
\* (each intermediate tree is bound as a value, so that it is computed once)
PruneEach(fl, ds, subdirs, selected) ==
    IF subdirs = {} THEN ds
    ELSE CHOOSE r \in UNION {{PruneEach(fl, left, subdirs \ {subdir}, selected) :
                                 left \in {remove_empty_dirs(fl, ds, subdir, selected)}} :
                             subdir \in {CHOOSE d \in subdirs : TRUE}} : TRUE

remove_empty_dirs_any(fl, ds, p, selected) ==
    IF p \notin ds THEN ds
    ELSE CHOOSE r \in {IF is_dir_empty(fl, after, p) THEN after \ {p} ELSE after :
                       after \in {PruneEach(fl, ds, {d \in Children(fl, ds, p) : d \in ds},
                                            selected)}} : TRUE

\* returns the directories left; selected is self.path.get()
remove_empty_dirs(fl, ds, p, selected) ==
    IF p \notin ds THEN ds
    ELSE CHOOSE r \in {IF is_dir_empty(fl, after, p) /\ p # selected
                       THEN after \ {p} ELSE after :
                       after \in {PruneEach(fl, ds, {d \in Children(fl, ds, p) : d \in ds},
                                            selected)}} : TRUE

---------------------------------------------------------------------------
(* File enumeration: get_files_with_progress *)

Under(d, p) == IsPrefix(d, p) /\ p # d

\* the orders in which the operating system may report the entries S of a directory
Perms(S) ==
    {s \in [1..Cardinality(S) -> S] : \A i, j \in 1..Cardinality(S) : i # j => s[i] # s[j]}

\* os.listdir(d): the names of the entries of directory d
listdir(fl, ds, d) == {basename(p) : p \in Children(fl, ds, d)}

isfile(fl, p) == p \in DOMAIN fl

isdir(ds, p) == p \in ds

RECURSIVE os_walk(_, _, _), walk_each(_, _, _)
\* os.walk(top), top-down: the possible sequences of steps [root, filenames]; a
\* step lists the entries of one directory that are not directories, then each
\* subdirectory is walked in turn
os_walk(fl, ds, top) ==
    LET nondirs == {n \in listdir(fl, ds, top) : ~isdir(ds, join(top, n))}
        subdirs == {join(top, n) : n \in {m \in listdir(fl, ds, top) : isdir(ds, join(top, m))}}
    IN  {<<[root |-> top, filenames |-> f]>> \o rest :
            f \in Perms(nondirs), rest \in walk_each(fl, ds, subdirs)}

walk_each(fl, ds, D) ==
    IF D = {} THEN {<<>>}
    ELSE UNION {{a \o b : a \in os_walk(fl, ds, d), b \in walk_each(fl, ds, D \ {d})} : d \in D}

RECURSIVE JoinAll(_, _)
\* files.append(os.path.join(root, filename)) for each filename of a step
JoinAll(root, filenames) ==
    IF filenames = <<>> THEN <<>>
    ELSE <<join(root, Head(filenames))>> \o JoinAll(root, Tail(filenames))

RECURSIVE Flatten(_)
Flatten(steps) ==
    IF steps = <<>> THEN <<>>
    ELSE JoinAll(Head(steps).root, Head(steps).filenames) \o Flatten(Tail(steps))

get_files_walks_on(fl, ds, folder, sub) ==
    {Flatten(w) : w \in os_walk(fl, ds, folder)}

\* get_files: the loop over os.walk is left after its first step when subfolders
\* are not included
get_files(fl, ds, folder, sub) ==
    {Flatten(IF sub THEN w ELSE SubSeq(w, 1, 1)) : w \in os_walk(fl, ds, folder)}

\* get_files_with_progress, the pass that collects the files: os.walk with
\* subfolders, os.listdir filtered with os.path.isfile without
get_files_with_progress(fl, ds, folder, sub) ==
    IF sub
    THEN {Flatten(w) : w \in os_walk(fl, ds, folder)}
    ELSE {JoinAll(folder, f) :
            f \in Perms({n \in listdir(fl, ds, folder) : isfile(fl, join(folder, n))})}

---------------------------------------------------------------------------
(* The content of files.  The identity of a content is the path the file had *)
(* in the initial tree; Attr gives what reading the file yields: its size in *)
(* bytes, whether it can be opened, its MD5 digest, the date its embedded    *)
(* metadata parses to, the date the filesystem reports and the coordinates   *)
(* of its GPS tags in 1/100000 degrees.                                      *)

MB == 1024 * 1024

Jpg(b) == Nm(b, <<>>, "jpg")

Paris == Gps(4885661, 235222)

PartyJpg == Root \o <<Jpg("2022-03-04_party")>>

UpperJpg == Root \o <<Nm("b", <<>>, "JPG")>>

SubJpeg == Root \o <<Nm("sub", <<>>, ""), Nm("c", <<>>, "jpeg")>>

BigJpg == Root \o <<Jpg("big")>>

LockedJpg == Root \o <<Jpg("locked")>>

PoleJpg == Root \o <<Jpg("pole")>>

HugeBin == Root \o <<Nm("huge", <<>>, "bin")>>

EdgeBin == Root \o <<Nm("edge", <<>>, "bin")>>

Attr(c) ==
    CASE c = PartyJpg ->
             [size |-> 2 * MB, readable |-> TRUE, digest |-> "d2", exif |-> None,
              created |-> Date(2024, 5, 6), gps |-> Paris]
      [] c = UpperJpg ->
             [size |-> 2 * MB, readable |-> TRUE, digest |-> "d4", exif |-> None,
              created |-> Date(2024, 5, 6), gps |-> Gps(0, 0)]
      [] c = SubJpeg ->
             [size |-> 30 * MB, readable |-> TRUE, digest |-> "d5",
              exif |-> Date(2020, 1, 30), created |-> Date(2024, 5, 6), gps |-> NoGps]
      [] c = BigJpg ->
             [size |-> 40 * MB, readable |-> TRUE, digest |-> "d2", exif |-> None,
              created |-> Date(2023, 12, 31), gps |-> Paris]
      [] c = LockedJpg ->
             [size |-> 2 * MB, readable |-> FALSE, digest |-> "d2",
              exif |-> Date(2020, 1, 30), created |-> Date(2023, 12, 31), gps |-> Paris]
      [] c = PoleJpg ->
             [size |-> 2 * MB, readable |-> TRUE, digest |-> "d6", exif |-> None,
              created |-> Date(2023, 12, 31), gps |-> Gps(9500000, 235222)]
      [] c = HugeBin ->
             [size |-> 200 * MB, readable |-> TRUE, digest |-> "d1", exif |-> None,
              created |-> Date(2023, 12, 31), gps |-> NoGps]
      [] c = EdgeBin ->
             [size |-> 100 * MB, readable |-> TRUE, digest |-> "d4", exif |-> None,
              created |-> Date(2023, 12, 31), gps |-> NoGps]
      [] OTHER ->
             [size |-> 1024, readable |-> TRUE, digest |-> "d1", exif |-> None,
              created |-> Date(2024, 5, 6), gps |-> NoGps]

\* the characters of the base of a name; a base without digits and separators
\* counts as one character
BaseChars(b) ==
    IF b = "2022-03-04_party"
    THEN <<"2", "0", "2", "2", "-", "0", "3", "-", "0", "4", "_", "p", "a", "r", "t", "y">>
    ELSE <<b>>

\* the characters of os.path.basename(file_path); the counters that
\* generate_unique_filename appends and the extension count as one character each
NameChars(name) ==
    BaseChars(name.base) \o [i \in 1..Len(name.sfx) |-> "(n)"]
        \o (IF name.ext = "" THEN <<>> ELSE <<".", name.ext>>)

\* what the date functions read of the file at file_path
FileRecord(fl, file_path) ==
    [chars |-> NameChars(basename(file_path)),
     ext |-> basename(file_path).ext,
     exif |-> IF Attr(fl[file_path]).readable THEN Attr(fl[file_path]).exif ELSE None,
     created |-> Attr(fl[file_path]).created]

---------------------------------------------------------------------------
(* The plan builders by category and by date *)

CategoryDestFlat(folder, file_path) == join(folder, basename(file_path))

\* category_folder = os.path.join(folder, category)
\* dest_path = os.path.join(category_folder, os.path.basename(file_path))
CategoryDest(folder, file_path) ==
    join(join(folder, Nm(get_file_category(file_path), <<>>, "")), basename(file_path))

RECURSIVE PlanByCategory(_, _, _)
PlanByCategory(fl, folder, fileList) ==
    IF fileList = <<>> THEN <<>>
    ELSE LET file_path == Head(fileList)
             rest == PlanByCategory(fl, folder, Tail(fileList))
         IN  IF isfile(fl, file_path)
             THEN <<(<<file_path, CategoryDest(folder, file_path)>>)>> \o rest
             ELSE rest

Pad2(k) == IF k < 10 THEN "0" \o ToString(k) ELSE ToString(k)

\* file_date.strftime(date_format), date_format looked up in the table of the
\* builder with "%Y-%m-%d" as default
strftime(date, date_format) ==
    CASE date_format = "year" -> ToString(date.year)
      [] date_format = "month" -> ToString(date.year) \o "-" \o Pad2(date.month)
      [] OTHER -> ToString(date.year) \o "-" \o Pad2(date.month) \o "-" \o Pad2(date.day)

\* date_folder = os.path.join(folder, file_date.strftime(date_format))
\* dest_path = os.path.join(date_folder, os.path.basename(file_path))
DateDest(opts, fl, folder, file_path) ==
    LET file_date == get_file_date(opts.date_source, opts.has_pil,
                                   FileRecord(fl, file_path)).date
    IN  join(join(folder, Nm(strftime(file_date, opts.date_format), <<>>, "")),
             basename(file_path))

RECURSIVE PlanByDate(_, _, _, _)
PlanByDate(opts, fl, folder, fileList) ==
    IF fileList = <<>> THEN <<>>
    ELSE LET file_path == Head(fileList)
             rest == PlanByDate(opts, fl, folder, Tail(fileList))
         IN  IF isfile(fl, file_path)
             THEN <<(<<file_path, DateDest(opts, fl, folder, file_path)>>)>> \o rest
             ELSE rest

---------------------------------------------------------------------------
(* The plan builder by location: get_gps_data and one turn of the loop of   *)
(* _process_location_files                                                  *)

\* the selection of the image files: f.lower().endswith(('.jpg', '.jpeg'))
IsImage(file_path) == Lower(basename(file_path).ext) \in {"jpg", "jpeg"}

\* _extract_gps_with_exception_trap: the coordinates of the GPS tags, None without
\* tags, on any error and for coordinates out of range
extract_gps(fl, file_path) ==
    LET gps == Attr(fl[file_path]).gps
        abs(x) == IF x < 0 THEN 0 - x ELSE x
    IN  IF ~gps.present THEN NoGps
        ELSE IF abs(gps.latitude) > 90 * 100000 \/ abs(gps.longitude) > 180 * 100000
             THEN NoGps
             ELSE gps

\* get_gps_data: None without the imaging library, for a file that is missing or
\* cannot be read, for a file above 50 MB and for a name that is not .jpg/.jpeg
get_gps_data(has_pil, fl, file_path) ==
    IF ~has_pil THEN NoGps
    ELSE IF ~isfile(fl, file_path) \/ ~Attr(fl[file_path]).readable THEN NoGps
         ELSE IF Attr(fl[file_path]).size > 50 * MB THEN NoGps
              ELSE IF ~IsImage(file_path) THEN NoGps
                   ELSE extract_gps(fl, file_path)

\* re.sub(r'[<>:"/\\|?*]', '_', location_name) on the names of the model
safe_location(location_name) ==
    CASE location_name = "N/A" -> "N_A"
      [] location_name = "N/A, France" -> "N_A, France"
      [] OTHER -> location_name

\* one turn of the loop: the entries appended for file_path, none for a file
\* above 30 MB; response is the answer of the geocoding service if it is asked
LocationEntry(opts, fl, folder, file_path, response) ==
    IF isfile(fl, file_path) /\ Attr(fl[file_path]).size > 30 * MB
    THEN <<>>
    ELSE LET gps_data == get_gps_data(opts.has_pil, fl, file_path)
             key == IF gps_data.present
                       /\ (gps_data.latitude # 0 \/ gps_data.longitude # 0)
                    THEN safe_location(get_location_name(gps_data,
                                           opts.location_granularity, response).name)
                    ELSE "Unknown Location"
         IN  <<(<<file_path,
                  join(join(join(folder, Nm("Locations", <<>>, "")), Nm(key, <<>>, "")),
                       basename(file_path))>>)>>

---------------------------------------------------------------------------
(* The duplicate search: _calculate_file_hash and the loop of               *)
(* _find_duplicates_thread                                                  *)

NoHash == ""

\* _calculate_file_hash: the digest, None when the file cannot be read
calculate_file_hash(fl, file_path) ==
    IF isfile(fl, file_path) /\ Attr(fl[file_path]).readable
    THEN Attr(fl[file_path]).digest
    ELSE NoHash

\* file_hashes[file_hash].append(file_path), the list created when missing
Put(file_hashes, file_hash, file_path) ==
    [h \in (DOMAIN file_hashes) \cup {file_hash} |->
        IF h \in DOMAIN file_hashes
        THEN (IF h = file_hash THEN Append(file_hashes[h], file_path) ELSE file_hashes[h])
        ELSE <<file_path>>]

\* whether the loop leaves file_path out before hashing it: os.path.getsize
\* raises for a missing file, a file above 100 MB is skipped
UnhashedNever(fl, file_path) == FALSE

Unhashed(fl, file_path) ==
    ~isfile(fl, file_path) \/ Attr(fl[file_path]).size > 100 * MB

RECURSIVE HashLoop(_, _, _)
\* the loop over the enumerated files
HashLoop(fl, fileList, file_hashes) ==
    IF fileList = <<>> THEN file_hashes
    ELSE LET file_path == Head(fileList)
             file_hash == calculate_file_hash(fl, file_path)
         IN  IF Unhashed(fl, file_path) \/ file_hash = NoHash
             THEN HashLoop(fl, Tail(fileList), file_hashes)
             ELSE HashLoop(fl, Tail(fileList), Put(file_hashes, file_hash, file_path))

DuplicatesOfAll(file_hashes) == file_hashes

\* duplicates = {h: files for h, files in file_hashes.items() if len(files) > 1}
DuplicatesOf(file_hashes) ==
    [h \in {k \in DOMAIN file_hashes : Len(file_hashes[k]) > 1} |-> file_hashes[h]]

---------------------------------------------------------------------------
(* Records of the threads, windows and callbacks *)

NoPath == <<>>

\* no function has been applied on its own
NoProbe == [op |-> "none"]

\* the settings without a configuration file
DefaultOptions ==
    [date_source |-> "all", date_format |-> "day", location_granularity |-> "city",
     has_pil |-> TRUE]

\* cancelled (history): the user pressed Cancel while this scan was running
\* strategy: what the thread builds; plan, idx and flag: the preview list, the
\* position in the image files and processing_cancelled[0] of a location preview;
\* groups: the duplicates found by a duplicate search
NewScan(strategy, folder) ==
    [pc |-> "begin", folder |-> folder, files |-> <<>>, result |-> "running",
     cancelled |-> FALSE, strategy |-> strategy, plan |-> <<>>, idx |-> 0,
     flag |-> FALSE, groups |-> <<>>]

\* stale (history): when the thread started, no preview had been shown since the
\* last run finished; cancel_at (history): the entry in progress when the user
\* pressed a Cancel button during this run, 0 when that never happened
NewRun(w) == [pc |-> "start", win |-> w, plan |-> <<>>, idx |-> 0,
              success_count |-> 0, skipped_count |-> 0, final_dst |-> NoPath,
              log |-> <<>>, summary |-> <<>>, shown |-> <<>>, stale |-> FALSE,
              cancel_at |-> 0, delete_empty |-> delete_empty_folders]

NewWindow(p) == [state |-> "open", shown |-> p, enabled |-> TRUE, frames |-> 0]

Callback(op, n, p) == [op |-> op, n |-> n, plan |-> p]

LogLine(kind, src, dst) == [kind |-> kind, src |-> src, dst |-> dst]

\* the processing dialog holds the input grab (grab_set) while it exists
Grabbed == dialog.open

Alive(t) == run[t].pc \in {"start", "loop", "move", "finish", "clear"}

---------------------------------------------------------------------------
(* The execution thread: execute_organization_with_progress *)

\* the skip test: os.path.dirname(src) == os.path.dirname(dst)
SameDirNever(src, dst) == FALSE

SameDir(src, dst) == dirname(src) = dirname(dst)

\* progress_value += 1; root.after(0, update_progress(progress_value)); next entry
Advance(r) ==
    [r EXCEPT !.idx = r.idx + 1,
              !.final_dst = NoPath,
              !.pc = IF r.idx + 1 > Len(r.plan) THEN "finish" ELSE "loop"]

\* the except clause of the loop body: the error is logged and the loop goes on
\* with the progress update and the next entry
AfterErrorAbort(r, src, dst) ==
    [r EXCEPT !.log = Append(r.log, LogLine("error", src, dst)), !.pc = "done"]

AfterError(r, src, dst) ==
    Advance([r EXCEPT !.log = Append(r.log, LogLine("error", src, dst))])

\* "if not self.preview: showerror; return", else the loop starts over the list
\* self.preview refers to at this moment
ExecStart(t) ==
    /\ t \in DOMAIN run
    /\ run[t].pc = "start"
    /\ run' = IF preview = <<>>
              THEN [run EXCEPT ![t].pc = "done", ![t].stale = executed]
              ELSE [run EXCEPT ![t].pc = "loop", ![t].plan = preview, ![t].idx = 1,
                               ![t].stale = executed]
    /\ UNCHANGED <<probe, options, files, dirs, path, include_subfolders, delete_empty_folders,
                   preview, cancel_scan, dialog, scan, wins, afterQ, faults, executed, removed>>

\* one entry up to the move: the skip test, os.makedirs, the choice of the final name
ExecResolve(t) ==
    /\ t \in DOMAIN run
    /\ run[t].pc = "loop"
    /\ LET r == run[t]
           src == r.plan[r.idx][1]
           dst == r.plan[r.idx][2]
           dst_dir == dirname(dst)
           made == Makedirs(files, dirs, dst_dir)
           dst_filename == IF Exists(files, made, dst)
                           THEN generate_unique_filename(files, made, dst_dir, basename(dst))
                           ELSE basename(dst)
       IN  IF SameDir(src, dst)
           THEN /\ run' = [run EXCEPT ![t] =
                               Advance([r EXCEPT !.skipped_count = r.skipped_count + 1,
                                                 !.log = Append(r.log, LogLine("skipped", src, src))])]
                /\ afterQ' = Append(afterQ, Callback("progress", r.idx, <<>>))
                /\ dirs' = dirs
           ELSE IF MakedirsFails(files, dst_dir)
           THEN /\ run' = [run EXCEPT ![t] = AfterError(r, src, dst)]
                /\ afterQ' = Append(afterQ, Callback("progress", r.idx, <<>>))
                /\ dirs' = made
           ELSE /\ run' = [run EXCEPT ![t].pc = "move",
                                      ![t].final_dst = join(dst_dir, dst_filename)]
                /\ afterQ' = afterQ
                /\ dirs' = made
    /\ UNCHANGED <<probe, options, files, path, include_subfolders, delete_empty_folders,
                   preview, cancel_scan, dialog, scan, wins, faults, executed, removed>>

\* shutil.move(src, final_dst) and the accounting of the entry
ExecMove(t) ==
    /\ t \in DOMAIN run
    /\ run[t].pc = "move"
    /\ LET r == run[t]
           src == r.plan[r.idx][1]
       IN  /\ IF MoveOk(files, dirs, src, r.final_dst)
              THEN /\ files' = MoveFiles(files, dirs, src, r.final_dst)
                   /\ run' = [run EXCEPT ![t] =
                                  Advance([r EXCEPT !.success_count = r.success_count + 1,
                                                    !.log = Append(r.log, LogLine("moved", src, r.final_dst))])]
              ELSE /\ files' = files
                   /\ run' = [run EXCEPT ![t] = AfterError(r, src, r.final_dst)]
           /\ afterQ' = Append(afterQ, Callback("progress", r.idx, <<>>))
    /\ UNCHANGED <<probe, options, dirs, path, include_subfolders, delete_empty_folders,
                   preview, cancel_scan, dialog, scan, wins, faults, executed, removed>>

\* after the loop: the pruning, the status message, the message box and
\* window.destroy scheduled
ExecFinish(t) ==
    /\ t \in DOMAIN run
    /\ run[t].pc = "finish"
    /\ dirs' = IF delete_empty_folders
               THEN remove_empty_dirs(files, dirs, path, path)
               ELSE dirs
    /\ run' = [run EXCEPT ![t].pc = "clear",
                          ![t].summary = <<[success |-> run[t].success_count,
                                            total |-> Len(preview),
                                            skipped |-> run[t].skipped_count]>>]
    /\ afterQ' = afterQ \o <<Callback("showinfo", t, <<>>),
                             Callback("destroy", run[t].win, <<>>)>>
    /\ UNCHANGED <<probe, options, files, path, include_subfolders, delete_empty_folders, preview,
                   cancel_scan, dialog, scan, wins, faults, executed, removed>>

PlanAfterRunKept(p) == p

\* self.preview = []
PlanAfterRun(p) == <<>>

\* the last statement of the thread
ExecClear(t) ==
    /\ t \in DOMAIN run
    /\ run[t].pc = "clear"
    /\ run' = [run EXCEPT ![t].pc = "done"]
    /\ preview' = PlanAfterRun(preview)
    /\ executed' = TRUE
    /\ UNCHANGED <<probe, options, files, dirs, path, include_subfolders, delete_empty_folders,
                   cancel_scan, dialog, scan, wins, afterQ, faults, removed>>

---------------------------------------------------------------------------
(* The preview-generation thread: _generate_preview_by_type *)

\* close_processing_dialog: schedules the destruction of the dialog that exists now
CloseDialog(q) ==
    IF dialog.open THEN Append(q, Callback("close_dialog", dialog.id, <<>>)) ELSE q

\* the except clause of the thread: InterruptedError ends it without a plan
Interrupted(s) ==
    /\ scan' = [scan EXCEPT ![s].pc = "done", ![s].result = "cancelled"]
    /\ afterQ' = CloseDialog(afterQ)

\* the directories after a builder has appended its entries: the builders compute
\* the destination paths and create no folder
DirsAfterBuildingMade(ds, entries) ==
    ds \cup UNION {Prefixes(dirname(entries[i][2])) : i \in DOMAIN entries}

DirsAfterBuilding(ds, entries) == ds

\* get_files_with_progress, first statements: files = []; self.cancel_scan = False
ScanBegin(s) ==
    /\ s \in DOMAIN scan
    /\ scan[s].strategy # "location"
    /\ scan[s].pc = "begin"
    /\ cancel_scan' = FALSE
    /\ scan' = [scan EXCEPT ![s].pc = "count"]
    /\ UNCHANGED <<probe, options, files, dirs, path, include_subfolders, delete_empty_folders,
                   preview, dialog, run, wins, afterQ, faults, executed, removed>>

\* the counting pass: with subfolders the flag is consulted after each directory,
\* without subfolders it is not consulted
ScanCount(s) ==
    /\ s \in DOMAIN scan
    /\ scan[s].pc = "count"
    /\ IF include_subfolders /\ cancel_scan
       THEN Interrupted(s)
       ELSE /\ scan' = [scan EXCEPT ![s].pc = "list"]
            /\ afterQ' = afterQ
    /\ UNCHANGED <<probe, options, files, dirs, path, include_subfolders, delete_empty_folders,
                   preview, cancel_scan, dialog, run, wins, faults, executed, removed>>

\* the listing pass: the flag is consulted after each file appended
ScanList(s) ==
    /\ s \in DOMAIN scan
    /\ scan[s].pc = "list"
    /\ \E order \in get_files_with_progress(files, dirs, scan[s].folder, include_subfolders) :
           IF order # <<>> /\ cancel_scan
           THEN Interrupted(s)
           ELSE /\ scan' = [scan EXCEPT ![s].pc = "process", ![s].files = order]
                /\ afterQ' = afterQ
    /\ UNCHANGED <<probe, options, files, dirs, path, include_subfolders, delete_empty_folders,
                   preview, cancel_scan, dialog, run, wins, faults, executed, removed>>

\* the processing loop and the delivery: root.after(0, show_preview(list(preview)))
\* then close_processing_dialog; the flag is not consulted
ScanProcess(s) ==
    /\ s \in DOMAIN scan
    /\ scan[s].strategy \in {"type", "category", "date"}
    /\ scan[s].pc = "process"
    /\ LET p == CASE scan[s].strategy = "type" ->
                      PlanByType(files, scan[s].folder, scan[s].files)
                 [] scan[s].strategy = "category" ->
                      PlanByCategory(files, scan[s].folder, scan[s].files)
                 [] scan[s].strategy = "date" ->
                      PlanByDate(options, files, scan[s].folder, scan[s].files)
       IN  /\ dirs' = DirsAfterBuilding(dirs, p)
           /\ IF p = <<>>
              THEN /\ scan' = [scan EXCEPT ![s].pc = "done", ![s].result = "empty"]
                   /\ afterQ' = CloseDialog(afterQ)
              ELSE /\ scan' = [scan EXCEPT ![s].pc = "done", ![s].result = "delivered",
                                           ![s].plan = p]
                   /\ afterQ' = CloseDialog(Append(afterQ, Callback("show_preview", 0, p)))
    /\ UNCHANGED <<probe, options, files, path, include_subfolders, delete_empty_folders,
                   preview, cancel_scan, dialog, run, wins, faults, executed, removed>>

\* the loop of the duplicate search and its result: no files, cancelled (the flag
\* is consulted after each file that was not skipped as too large), no
\* duplicates, or root.after(0, show_duplicate_manager(duplicates))
ScanHash(s) ==
    /\ s \in DOMAIN scan
    /\ scan[s].strategy = "duplicates"
    /\ scan[s].pc = "process"
    /\ LET fileList == scan[s].files
           consulted == \E i \in DOMAIN fileList :
                            ~(isfile(files, fileList[i])
                              /\ Attr(files[fileList[i]]).size > 100 * MB)
           duplicates == DuplicatesOf(HashLoop(files, fileList, <<>>))
       IN  IF fileList = <<>>
           THEN /\ scan' = [scan EXCEPT ![s].pc = "done", ![s].result = "empty"]
                /\ afterQ' = CloseDialog(afterQ)
           ELSE IF consulted /\ cancel_scan
           THEN Interrupted(s)
           ELSE /\ scan' = [scan EXCEPT ![s].pc = "done",
                                        ![s].result = IF DOMAIN duplicates = {}
                                                      THEN "none" ELSE "found",
                                        ![s].groups = duplicates]
                /\ afterQ' = IF DOMAIN duplicates = {}
                             THEN CloseDialog(afterQ)
                             ELSE Append(CloseDialog(afterQ),
                                         Callback("show_duplicate_manager", s, <<>>))
    /\ UNCHANGED <<probe, options, files, dirs, path, include_subfolders,
                   delete_empty_folders, preview, cancel_scan, dialog, run, wins, faults,
                   executed, removed>>

\* the answers the geocoding service may give to a request of the preview
GeoAnswers ==
    {[kind |-> "error"],
     [kind |-> "http", status |-> 200, json |-> TRUE,
      address |-> [city |-> "Paris", country |-> "France"], display_name |-> <<>>],
     [kind |-> "http", status |-> 200, json |-> TRUE,
      address |-> [state |-> "N/A"], display_name |-> <<>>]}

\* _process_location_files, first statements: get_files and the selection of the
\* image files; without image files the loading window is closed and a message
\* box is shown
LocList(s) ==
    /\ s \in DOMAIN scan
    /\ scan[s].strategy = "location"
    /\ scan[s].pc = "begin"
    /\ \E order \in get_files(files, dirs, scan[s].folder, include_subfolders) :
           LET image_files == SelectSeq(order, IsImage)
           IN  IF image_files = <<>>
               THEN /\ scan' = [scan EXCEPT ![s].pc = "done", ![s].result = "empty"]
                    /\ afterQ' = Append(afterQ, Callback("close_dialog", s, <<>>))
               ELSE /\ scan' = [scan EXCEPT ![s].pc = "locate", ![s].files = image_files]
                    /\ afterQ' = afterQ
    /\ UNCHANGED <<probe, options, files, dirs, path, include_subfolders,
                   delete_empty_folders, preview, cancel_scan, dialog, run, wins, faults,
                   executed, removed>>

\* one image file of the loop; processing_cancelled[0] is consulted at the start
\* of each batch of 5 files and the thread returns when it is set
LocFile(s) ==
    /\ s \in DOMAIN scan
    /\ scan[s].strategy = "location"
    /\ scan[s].pc = "locate"
    /\ scan[s].idx < Len(scan[s].files)
    /\ IF scan[s].idx % 5 = 0 /\ scan[s].flag
       THEN scan' = [scan EXCEPT ![s].pc = "done", ![s].result = "cancelled"]
       ELSE LET file_path == scan[s].files[scan[s].idx + 1]
                gps_data == get_gps_data(options.has_pil, files, file_path)
                asked == /\ ~(isfile(files, file_path)
                              /\ Attr(files[file_path]).size > 30 * MB)
                         /\ gps_data.present
                         /\ gps_data.latitude # 0 \/ gps_data.longitude # 0
            IN  \E response \in IF asked THEN GeoAnswers ELSE {[kind |-> "error"]} :
                    scan' = [scan EXCEPT
                                ![s].idx = @ + 1,
                                ![s].plan = @ \o LocationEntry(options, files, scan[s].folder,
                                                               file_path, response)]
    /\ UNCHANGED <<probe, options, files, dirs, path, include_subfolders,
                   delete_empty_folders, preview, cancel_scan, dialog, run, wins, afterQ,
                   faults, executed, removed>>

\* requests.get(url, headers=headers) of get_location_name when the service never
\* answers: the call has no timeout and the thread stays in it
LocWait(s) ==
    /\ s \in DOMAIN scan
    /\ scan[s].strategy = "location"
    /\ scan[s].pc = "locate"
    /\ scan[s].idx < Len(scan[s].files)
    /\ ~(scan[s].idx % 5 = 0 /\ scan[s].flag)
    /\ LET file_path == scan[s].files[scan[s].idx + 1]
           gps_data == get_gps_data(options.has_pil, files, file_path)
       IN  /\ ~(isfile(files, file_path) /\ Attr(files[file_path]).size > 30 * MB)
           /\ gps_data.present
           /\ gps_data.latitude # 0 \/ gps_data.longitude # 0
    /\ scan' = [scan EXCEPT ![s].pc = "requests.get"]
    /\ UNCHANGED <<probe, options, files, dirs, path, include_subfolders,
                   delete_empty_folders, preview, cancel_scan, dialog, run, wins, afterQ,
                   faults, executed, removed>>

\* after the loop: the loading window is closed; nothing more when the flag is
\* set, a message box without entries, else root.after(0, show_preview(list(preview)))
LocFinish(s) ==
    /\ s \in DOMAIN scan
    /\ scan[s].strategy = "location"
    /\ scan[s].pc = "locate"
    /\ scan[s].idx = Len(scan[s].files)
    /\ dirs' = DirsAfterBuilding(dirs, scan[s].plan)
    /\ LET q == Append(afterQ, Callback("close_dialog", s, <<>>))
       IN  IF scan[s].flag
           THEN /\ scan' = [scan EXCEPT ![s].pc = "done", ![s].result = "cancelled"]
                /\ afterQ' = q
           ELSE IF scan[s].plan = <<>>
           THEN /\ scan' = [scan EXCEPT ![s].pc = "done", ![s].result = "empty"]
                /\ afterQ' = q
           ELSE /\ scan' = [scan EXCEPT ![s].pc = "done", ![s].result = "delivered"]
                /\ afterQ' = Append(q, Callback("show_preview", 0, scan[s].plan))
    /\ UNCHANGED <<probe, options, files, path, include_subfolders,
                   delete_empty_folders, preview, cancel_scan, dialog, run, wins, faults,
                   executed, removed>>

---------------------------------------------------------------------------
(* The main thread: button handlers and the callbacks scheduled with after() *)

\* preview_by_type: show_processing_dialog (cancel_scan = False, grab_set), then
\* the worker thread is started on the selected folder
ClickPreviewByType ==
    /\ ~Grabbed
    /\ Len(scan) < MaxScans
    /\ dialog' = [id |-> dialog.id + 1, open |-> TRUE]
    /\ cancel_scan' = FALSE
    /\ scan' = Append(scan, NewScan("type", path))
    /\ UNCHANGED <<probe, options, files, dirs, path, include_subfolders, delete_empty_folders,
                   preview, run, wins, afterQ, faults, executed, removed>>

\* preview_by_category, preview_by_date and find_duplicates: the same with their
\* own worker thread
ClickOther(strategy) ==
    /\ ~Grabbed
    /\ Len(scan) < MaxScans
    /\ dialog' = [id |-> dialog.id + 1, open |-> TRUE]
    /\ cancel_scan' = FALSE
    /\ scan' = Append(scan, NewScan(strategy, path))
    /\ UNCHANGED <<probe, options, files, dirs, path, include_subfolders,
                   delete_empty_folders, preview, run, wins, afterQ, faults, executed,
                   removed>>

ClickPreviewByCategory == ClickOther("category")

ClickPreviewByDate == ClickOther("date")

ClickFindDuplicates == ClickOther("duplicates")

\* preview_by_location: the settings dialog is left with Continue on one of the
\* detail levels, nothing happens without the imaging library, then the loading
\* window (grab_set) is shown and the worker thread is started
ClickPreviewByLocation ==
    /\ ~Grabbed
    /\ Len(scan) < MaxScans
    /\ options.has_pil
    /\ \E g \in {"country", "city", "exact"} :
           options' = [options EXCEPT !.location_granularity = g]
    /\ dialog' = [id |-> dialog.id + 1, open |-> TRUE]
    /\ scan' = Append(scan, NewScan("location", path))
    /\ UNCHANGED <<probe, files, dirs, path, include_subfolders, delete_empty_folders,
                   preview, cancel_scan, run, wins, afterQ, faults, executed, removed>>

\* cancel_processing: the Cancel button of the loading window
ClickCancelLocation ==
    /\ dialog.open
    /\ scan[dialog.id].strategy = "location"
    /\ dialog' = [dialog EXCEPT !.open = FALSE]
    /\ scan' = [scan EXCEPT ![dialog.id].flag = TRUE,
                            ![dialog.id].cancelled = (scan[dialog.id].pc # "done")]
    /\ UNCHANGED <<probe, options, files, dirs, path, include_subfolders,
                   delete_empty_folders, preview, cancel_scan, run, wins, afterQ, faults,
                   executed, removed>>

\* the radio buttons of the date source and of the date format
SetDateOptions ==
    /\ ~Grabbed
    /\ \E src \in {"all", "filename", "exif", "filedate"}, fmt \in {"year", "month", "day"} :
           options' = [options EXCEPT !.date_source = src, !.date_format = fmt]
    /\ UNCHANGED <<probe, files, dirs, path, include_subfolders, delete_empty_folders,
                   preview, cancel_scan, dialog, scan, run, wins, afterQ, faults, executed,
                   removed>>

\* _cancel_processing_dialog: the Cancel button of the processing dialog
ClickCancelScan ==
    /\ dialog.open
    /\ scan[dialog.id].strategy # "location"
    /\ cancel_scan' = TRUE
    /\ dialog' = [dialog EXCEPT !.open = FALSE]
    /\ scan' = [s \in DOMAIN scan |->
                   IF s = dialog.id /\ scan[s].pc # "done"
                   THEN [scan[s] EXCEPT !.cancelled = TRUE]
                   ELSE scan[s]]
    /\ run' = [t \in DOMAIN run |->
                  IF run[t].pc \in {"loop", "move"} /\ run[t].cancel_at = 0
                  THEN [run[t] EXCEPT !.cancel_at = run[t].idx]
                  ELSE run[t]]
    /\ UNCHANGED <<probe, options, files, dirs, path, include_subfolders, delete_empty_folders,
                   preview, wins, afterQ, faults, executed, removed>>

\* the Execute button: confirm_and_execute places one more confirmation frame
ClickExecute(w) ==
    /\ w \in DOMAIN wins
    /\ ~Grabbed
    /\ wins[w].state = "open"
    /\ wins[w].enabled
    /\ wins[w].frames < MaxRuns
    /\ wins' = [wins EXCEPT ![w].frames = wins[w].frames + 1]
    /\ UNCHANGED <<probe, options, files, dirs, path, include_subfolders, delete_empty_folders,
                   preview, cancel_scan, dialog, scan, run, afterQ, faults, executed, removed>>

\* on_yes: cancel_button.config(state="disabled"); execute_button.config(state="disabled")
ButtonsLeftEnabled(win) == win

DisableButtons(win) == [win EXCEPT !.enabled = FALSE]

\* on_yes of one confirmation frame: the frame goes, the progress bar of the
\* newest preview window is packed (TclError when that window is gone), the
\* buttons of this window are disabled and the execution thread is started
ClickYes(w) ==
    /\ w \in DOMAIN wins
    /\ ~Grabbed
    /\ wins[w].state = "open"
    /\ wins[w].frames > 0
    /\ Len(run) < MaxRuns
    /\ IF wins[Len(wins)].state = "open"
       THEN /\ wins' = [wins EXCEPT ![w] =
                                DisableButtons([wins[w] EXCEPT !.frames = wins[w].frames - 1])]
            /\ run' = Append(run, NewRun(w))
            /\ faults' = faults
       ELSE /\ wins' = [wins EXCEPT ![w].frames = wins[w].frames - 1]
            /\ run' = run
            /\ faults' = faults \cup {"TclError"}
    /\ UNCHANGED <<probe, options, files, dirs, path, include_subfolders, delete_empty_folders,
                   preview, cancel_scan, dialog, scan, afterQ, executed, removed>>

\* on_no of one confirmation frame
ClickNo(w) ==
    /\ w \in DOMAIN wins
    /\ ~Grabbed
    /\ wins[w].state = "open"
    /\ wins[w].frames > 0
    /\ wins' = [wins EXCEPT ![w].frames = wins[w].frames - 1]
    /\ UNCHANGED <<probe, options, files, dirs, path, include_subfolders, delete_empty_folders,
                   preview, cancel_scan, dialog, scan, run, afterQ, faults, executed, removed>>

\* the Cancel button of the preview window: preview_window.destroy
ClickCancel(w) ==
    /\ w \in DOMAIN wins
    /\ ~Grabbed
    /\ wins[w].state = "open"
    /\ wins[w].enabled
    /\ wins' = [wins EXCEPT ![w].state = "destroyed", ![w].frames = 0]
    /\ UNCHANGED <<probe, options, files, dirs, path, include_subfolders, delete_empty_folders,
                   preview, cancel_scan, dialog, scan, run, afterQ, faults, executed, removed>>

\* show_preview(p): self.preview = p and a new preview window listing p
ShowPreview(cb) ==
    /\ preview' = cb.plan
    /\ wins' = Append(wins, NewWindow(cb.plan))
    /\ executed' = FALSE
    /\ UNCHANGED <<dialog, faults, run>>

\* update_progress(value) on the progress bar of the newest preview window; the
\* value shown by the bar is not part of the state
UpdateProgress(cb) ==
    /\ IF wins = <<>>
       THEN UNCHANGED <<wins, faults>>
       ELSE IF wins[Len(wins)].state # "open"
       THEN wins' = wins /\ faults' = faults \cup {"TclError"}
       ELSE /\ wins' = wins
            /\ faults' = IF Len(preview) = 0
                         THEN faults \cup {"ZeroDivisionError"}
                         ELSE faults
    /\ UNCHANGED <<preview, dialog, executed, run>>

\* window.destroy() scheduled by the end of a run
DestroyWindow(cb) ==
    /\ wins' = [wins EXCEPT ![cb.n].state = "destroyed", ![cb.n].frames = 0]
    /\ UNCHANGED <<preview, dialog, faults, executed, run>>

\* processing_dialog.destroy scheduled by close_processing_dialog
DestroyDialog(cb) ==
    /\ dialog' = IF dialog.id = cb.n THEN [dialog EXCEPT !.open = FALSE] ELSE dialog
    /\ UNCHANGED <<preview, wins, faults, executed, run>>

\* messagebox.showinfo scheduled by the end of a run: the counts are the thread's,
\* the total is len(self.preview) when the box is shown
ShowInfo(cb) ==
    /\ run' = [run EXCEPT ![cb.n].shown = <<[success |-> run[cb.n].success_count,
                                             total |-> Len(preview),
                                             skipped |-> run[cb.n].skipped_count]>>]
    /\ UNCHANGED <<preview, wins, dialog, faults, executed>>

\* show_duplicate_manager(duplicates): the groups are listed in a dialog
ShowDuplicateManager(cb) ==
    UNCHANGED <<preview, wins, dialog, faults, executed, run>>

\* the folder field of the main window (browse_folder, the recent folders list or
\* typing in the entry): another existing folder becomes the selected one
\* the check box "Delete Empty Folders" of the main window: the variable changes
\* with the click, and confirm_delete_empty asks before the option stays on (the
\* question is answered with OK)
ClickDeleteEmptyFolders ==
    /\ ~Grabbed
    /\ delete_empty_folders' = ~delete_empty_folders
    /\ UNCHANGED <<probe, options, files, dirs, path, include_subfolders, preview,
                   cancel_scan, dialog, scan, run, wins, afterQ, faults, executed,
                   removed>>

SelectFolder ==
    /\ ~Grabbed
    /\ \E d \in dirs : d # path /\ path' = d
    /\ UNCHANGED <<probe, options, files, dirs, include_subfolders, delete_empty_folders, preview,
                   cancel_scan, dialog, scan, run, wins, afterQ, faults, executed,
                   removed>>

\* the event loop runs the oldest scheduled callback
RunCallback ==
    /\ afterQ # <<>>
    /\ afterQ' = Tail(afterQ)
    /\ LET cb == Head(afterQ)
       IN  CASE cb.op = "show_preview" -> ShowPreview(cb)
             [] cb.op = "progress" -> UpdateProgress(cb)
             [] cb.op = "showinfo" -> ShowInfo(cb)
             [] cb.op = "destroy" -> DestroyWindow(cb)
             [] cb.op = "close_dialog" -> DestroyDialog(cb)
             [] cb.op = "show_duplicate_manager" -> ShowDuplicateManager(cb)
    /\ UNCHANGED <<probe, options, files, dirs, path, include_subfolders, delete_empty_folders,
                   cancel_scan, scan, removed>>

---------------------------------------------------------------------------
(* The environment: another program removes a file between the building of a
   plan and the end of its execution *)

ExternalRemove ==
    /\ removed < MaxRemoved
    /\ preview # <<>> \/ \E t \in DOMAIN run : Alive(t)
    /\ \E f \in DOMAIN files :
           files' = [p \in (DOMAIN files) \ {f} |-> files[p]]
    /\ removed' = removed + 1
    /\ UNCHANGED <<probe, options, dirs, path, include_subfolders, delete_empty_folders,
                   preview, cancel_scan, dialog, scan, run, wins, afterQ, faults,
                   executed>>

---------------------------------------------------------------------------
(* Initial states *)

Txt(b, s) == Nm(b, s, "txt")

Dir(b) == Nm(b, <<>>, "")

\* the files a tree may start with
Candidates ==
    { Root \o <<Txt("a", <<>>)>>,
      Root \o <<Dir("sub"), Txt("a", <<>>)>>,
      Root \o <<Dir("sub"), Dir("deep"), Txt("a", <<>>)>>,
      Root \o <<Dir("TXT"), Txt("a", <<>>)>>,
      Root \o <<Dir("TXT"), Txt("a", <<1>>)>>,
      Root \o <<Dir("TXT")>> }

\* a set of file paths is a tree when no file is an ancestor of another
IsTree(F) == \A p, q \in F : ~Under(p, q)

TreeDirs(F) == {Root} \cup UNION {Prefixes(dirname(p)) : p \in F}

InitTree(F) ==
    /\ files = [p \in F |-> p]
    /\ dirs = TreeDirs(F)

InitApp ==
    /\ path = Root
    /\ preview = <<>>
    /\ cancel_scan = FALSE
    /\ dialog = [id |-> 0, open |-> FALSE]
    /\ scan = <<>>
    /\ run = <<>>
    /\ wins = <<>>
    /\ afterQ = <<>>
    /\ faults = {}
    /\ executed = FALSE
    /\ removed = 0
    /\ probe = NoProbe
    /\ options = DefaultOptions

\* a folder with a.txt and TXT/a.txt: one file to move onto an occupied name
SmallTree == {Root \o <<Txt("a", <<>>)>>, Root \o <<Dir("TXT"), Txt("a", <<>>)>>}

Init ==
    /\ InitTree(SmallTree)
    /\ include_subfolders = TRUE
    /\ delete_empty_folders = TRUE
    /\ InitApp

InitSeq ==
    /\ \E F \in SUBSET Candidates :
           /\ Cardinality(F) <= MaxFiles
           /\ IsTree(F)
           /\ InitTree(F)
    /\ include_subfolders \in BOOLEAN
    /\ delete_empty_folders \in BOOLEAN
    /\ InitApp

---------------------------------------------------------------------------
(* Specifications *)

\* Spec: the user clicks at any time, the threads and the event loop interleave
\* freely; the specifications after it are scenarios of this one
Next ==
    \/ \E s \in 1..MaxScans : LocWait(s)
    \/ ClickDeleteEmptyFolders
    \/ ClickPreviewByType
    \/ ClickPreviewByCategory
    \/ ClickPreviewByDate
    \/ ClickPreviewByLocation
    \/ ClickFindDuplicates
    \/ SetDateOptions
    \/ ClickCancelScan
    \/ ClickCancelLocation
    \/ \E s \in 1..MaxScans : ScanHash(s)
    \/ \E s \in 1..MaxScans : LocList(s)
    \/ \E s \in 1..MaxScans : LocFile(s)
    \/ \E s \in 1..MaxScans : LocFinish(s)
    \/ \E s \in 1..MaxScans : ScanBegin(s)
    \/ \E s \in 1..MaxScans : ScanCount(s)
    \/ \E s \in 1..MaxScans : ScanList(s)
    \/ \E s \in 1..MaxScans : ScanProcess(s)
    \/ \E w \in 1..MaxScans : ClickExecute(w)
    \/ \E w \in 1..MaxScans : ClickYes(w)
    \/ \E w \in 1..MaxScans : ClickNo(w)
    \/ \E w \in 1..MaxScans : ClickCancel(w)
    \/ RunCallback
    \/ \E t \in 1..MaxRuns : ExecStart(t)
    \/ \E t \in 1..MaxRuns : ExecResolve(t)
    \/ \E t \in 1..MaxRuns : ExecMove(t)
    \/ \E t \in 1..MaxRuns : ExecFinish(t)
    \/ \E t \in 1..MaxRuns : ExecClear(t)
    \/ SelectFolder
    \/ ExternalRemove

Spec == Init /\ [][Next]_vars

\* nothing is in progress: no thread is running and no callback is pending
Quiet ==
    /\ afterQ = <<>>
    /\ \A s \in DOMAIN scan : scan[s].pc = "done"
    /\ \A t \in DOMAIN run : run[t].pc = "done"

\* SpecSeq: the user starts an operation only when the previous one is over and
\* never cancels, and the event loop runs a scheduled callback before the worker
\* threads go on
SeqPreview ==
    /\ Quiet
    /\ \A w \in DOMAIN wins : wins[w].state = "destroyed"
    /\ ClickPreviewByType

SeqExecute ==
    /\ Quiet
    /\ \E w \in 1..MaxScans : (w \in DOMAIN wins /\ wins[w].frames = 0 /\ ClickExecute(w))

SeqYes == Quiet /\ \E w \in 1..MaxScans : ClickYes(w)

Prompt == afterQ = <<>>

SeqNext ==
    \/ SeqPreview
    \/ SeqExecute
    \/ SeqYes
    \/ Prompt /\ \E s \in 1..MaxScans : ScanBegin(s)
    \/ Prompt /\ \E s \in 1..MaxScans : ScanCount(s)
    \/ Prompt /\ \E s \in 1..MaxScans : ScanList(s)
    \/ Prompt /\ \E s \in 1..MaxScans : ScanProcess(s)
    \/ RunCallback
    \/ Prompt /\ \E t \in 1..MaxRuns : ExecStart(t)
    \/ Prompt /\ \E t \in 1..MaxRuns : ExecResolve(t)
    \/ Prompt /\ \E t \in 1..MaxRuns : ExecMove(t)
    \/ Prompt /\ \E t \in 1..MaxRuns : ExecFinish(t)
    \/ Prompt /\ \E t \in 1..MaxRuns : ExecClear(t)

SpecSeq == InitSeq /\ [][SeqNext]_vars

\* SpecEnv: one preview and its execution, while other programs remove files
EnvPreview == scan = <<>> /\ ClickPreviewByType

EnvNext ==
    \/ EnvPreview
    \/ SeqExecute
    \/ SeqYes
    \/ Prompt /\ \E s \in 1..MaxScans : ScanBegin(s)
    \/ Prompt /\ \E s \in 1..MaxScans : ScanCount(s)
    \/ Prompt /\ \E s \in 1..MaxScans : ScanList(s)
    \/ Prompt /\ \E s \in 1..MaxScans : ScanProcess(s)
    \/ RunCallback
    \/ Prompt /\ \E t \in 1..MaxRuns : ExecStart(t)
    \/ Prompt /\ \E t \in 1..MaxRuns : ExecResolve(t)
    \/ Prompt /\ \E t \in 1..MaxRuns : ExecMove(t)
    \/ Prompt /\ \E t \in 1..MaxRuns : ExecFinish(t)
    \/ Prompt /\ \E t \in 1..MaxRuns : ExecClear(t)
    \/ Prompt /\ ExternalRemove

SpecEnv == InitSeq /\ [][EnvNext]_vars

\* SpecFolder: as SpecEnv, and the user selects other folders in between
FolderNext ==
    \/ EnvNext
    \/ Prompt /\ SelectFolder

SpecFolder == InitSeq /\ [][FolderNext]_vars

\* SpecClicks: one preview of the small folder, then any clicks in its window,
\* with the threads and the event loop interleaving freely
ClicksNext ==
    \/ EnvPreview
    \/ \E s \in 1..MaxScans : ScanBegin(s)
    \/ \E s \in 1..MaxScans : ScanCount(s)
    \/ \E s \in 1..MaxScans : ScanList(s)
    \/ \E s \in 1..MaxScans : ScanProcess(s)
    \/ \E w \in 1..MaxScans : ClickExecute(w)
    \/ \E w \in 1..MaxScans : ClickYes(w)
    \/ \E w \in 1..MaxScans : ClickNo(w)
    \/ \E w \in 1..MaxScans : ClickCancel(w)
    \/ RunCallback
    \/ \E t \in 1..MaxRuns : ExecStart(t)
    \/ \E t \in 1..MaxRuns : ExecResolve(t)
    \/ \E t \in 1..MaxRuns : ExecMove(t)
    \/ \E t \in 1..MaxRuns : ExecFinish(t)
    \/ \E t \in 1..MaxRuns : ExecClear(t)

SpecClicks == Init /\ [][ClicksNext]_vars

\* SpecCancel: previews started and cancelled at any time, and one execution
OneExecute == run = <<>> /\ \E w \in 1..MaxScans : (w \in DOMAIN wins /\ wins[w].frames = 0 /\ ClickExecute(w))

OneYes == run = <<>> /\ \E w \in 1..MaxScans : ClickYes(w)

CancelNext ==
    \/ ClickPreviewByType
    \/ ClickCancelScan
    \/ \E s \in 1..MaxScans : ScanBegin(s)
    \/ \E s \in 1..MaxScans : ScanCount(s)
    \/ \E s \in 1..MaxScans : ScanList(s)
    \/ \E s \in 1..MaxScans : ScanProcess(s)
    \/ OneExecute
    \/ OneYes
    \/ RunCallback
    \/ \E t \in 1..MaxRuns : ExecStart(t)
    \/ \E t \in 1..MaxRuns : ExecResolve(t)
    \/ \E t \in 1..MaxRuns : ExecMove(t)
    \/ \E t \in 1..MaxRuns : ExecFinish(t)
    \/ \E t \in 1..MaxRuns : ExecClear(t)

SpecCancel == Init /\ [][CancelNext]_vars

---------------------------------------------------------------------------
(* Properties *)

CountKind(log, k) == Cardinality({i \in DOMAIN log : log[i].kind = k})

Numbered(f, n) == Nm(f.base, Append(f.sfx, n), f.ext)

\* C1 (collision naming in plan order): when an entry is resolved for moving, its
\* final path lies in the destination directory; if the literal destination is
\* occupied at that moment the final name is "base (n)ext" for the smallest
\* n >= 1 whose name is unoccupied, otherwise it is the literal name; and the
\* move that follows stores the source's content under that name and leaves
\* every other file where it is.
C1_CollisionNaming ==
    [][\A t \in DOMAIN run :
          /\ (run[t].pc = "loop" /\ t \in DOMAIN run' /\ run'[t].pc = "move") =>
                 LET dst == run[t].plan[run[t].idx][2]
                     d == dirname(dst)
                     f == basename(dst)
                     fin == run'[t].final_dst
                 IN  /\ dirname(fin) = d
                     /\ IF Exists(files, dirs', dst)
                        THEN \E n \in 1..(Cardinality(DOMAIN files) + Cardinality(dirs') + 1) :
                                 /\ basename(fin) = Numbered(f, n)
                                 /\ ~Exists(files, dirs', fin)
                                 /\ \A m \in 1..(n - 1) : Exists(files, dirs', join(d, Numbered(f, m)))
                        ELSE basename(fin) = f
          /\ (run[t].pc = "move" /\ t \in DOMAIN run'
                /\ run'[t].success_count = run[t].success_count + 1) =>
                 LET src == run[t].plan[run[t].idx][1]
                     fin == run[t].final_dst
                 IN  /\ fin \in DOMAIN files'
                     /\ files'[fin] = files[src]
                     /\ \A p \in (DOMAIN files) \ {src} :
                            p \in DOMAIN files' /\ files'[p] = files[p]
      ]_vars

\* C1 witness: a run has stored two entries with the same occupied destination
\* as "(1)" and "(2)", in plan order, and the occupant is still in place
C1_Witness ==
    \E t \in DOMAIN run : \E i, j \in DOMAIN run[t].log :
        /\ i < j
        /\ run[t].log[i].kind = "moved" /\ run[t].log[j].kind = "moved"
        /\ run[t].plan[i][2] = run[t].plan[j][2]
        /\ basename(run[t].log[i].dst) = Numbered(basename(run[t].plan[i][2]), 1)
        /\ basename(run[t].log[j].dst) = Numbered(basename(run[t].plan[j][2]), 2)
        /\ run[t].plan[i][2] \in DOMAIN files
        /\ files[run[t].plan[i][2]] = run[t].plan[i][2]

\* C2 (skip is free of effects): a step of the executor on an entry whose source
\* and destination directories are equal counts the entry as skipped and changes
\* neither the files nor the directories.
C2_SkipChangesNothing ==
    [][\A t \in DOMAIN run :
          (/\ run[t].pc = "loop"
           /\ dirname(run[t].plan[run[t].idx][1]) = dirname(run[t].plan[run[t].idx][2])
           /\ t \in DOMAIN run'
           /\ run'[t] # run[t]) =>
              /\ files' = files
              /\ dirs' = dirs
              /\ run'[t].skipped_count = run[t].skipped_count + 1
              /\ run'[t].success_count = run[t].success_count
              /\ run'[t].idx = run[t].idx + 1
              /\ Len(run'[t].log) = Len(run[t].log) + 1
              /\ run'[t].log[Len(run'[t].log)].kind = "skipped"
      ]_vars

\* C2 witness: a finished run that skipped an entry and moved another
C2_Witness ==
    \E t \in DOMAIN run :
        /\ run[t].pc = "done"
        /\ run[t].skipped_count >= 1
        /\ run[t].success_count >= 1

ExecStep(t) ==
    ExecStart(t) \/ ExecResolve(t) \/ ExecMove(t) \/ ExecFinish(t) \/ ExecClear(t)

\* The worker threads are scheduled by the interpreter and the event loop runs
\* the callbacks queued with after(0, ...): neither is postponed for ever.
SpecEnvFair ==
    /\ SpecEnv
    /\ WF_vars(RunCallback)
    /\ \A t \in 1..MaxRuns : WF_vars(Prompt /\ t \in DOMAIN run /\ ExecStep(t))

Over(t) == t \in DOMAIN run /\ run[t].pc = "done"

C3_Accounted ==
    \A t \in DOMAIN run :
        LET r == run[t]
        IN  /\ \A i \in DOMAIN r.log : r.log[i].src = r.plan[i][1]
            /\ r.pc \in {"loop", "move"} => Len(r.log) = r.idx - 1 /\ r.idx <= Len(r.plan)
            /\ r.pc \in {"finish", "clear", "done"} => Len(r.log) = Len(r.plan)
            /\ (r.pc = "done" /\ r.plan # <<>>) => Len(r.summary) = 1
            /\ r.success_count = CountKind(r.log, "moved")
            /\ r.skipped_count = CountKind(r.log, "skipped")

\* C3 (per-entry failure isolation): every entry of the plan gets exactly one log
\* line, in plan order, whatever happened to the entries before it; a run that
\* is over has processed every entry and produced its summary; and every run
\* that starts is eventually over.
C3_FailureIsolation ==
    /\ []C3_Accounted
    /\ \A t \in 1..MaxRuns : [](t \in DOMAIN run => <>Over(t))

\* C3 witness: a finished run in which an entry failed and a later entry was moved
C3_Witness ==
    \E t \in DOMAIN run : \E i, j \in DOMAIN run[t].log :
        /\ run[t].pc = "done"
        /\ Len(run[t].summary) = 1
        /\ i < j
        /\ run[t].log[i].kind = "error"
        /\ run[t].log[j].kind = "moved"

Reported(r) == {r.summary[i] : i \in DOMAIN r.summary} \cup {r.shown[i] : i \in DOMAIN r.shown}

\* C4 (result accounting): in every result a run reports (the status message and
\* the message box), the moved count, the skipped count and the number of failed
\* entries add up to the reported number of entries, which is the number of
\* entries of the plan the run executed.
C4_ResultAccounting ==
    \A t \in DOMAIN run : \A res \in Reported(run[t]) :
        /\ res.success + res.skipped + CountKind(run[t].log, "error") = res.total
        /\ res.total = Len(run[t].plan)

\* C4: a run's message box has been shown
C4_Witness ==
    \E t \in DOMAIN run : run[t].plan # <<>> /\ run[t].shown # <<>>

Active(t) == run[t].pc \in {"loop", "move", "finish", "clear"}

\* C7 (one execution per plan): no two runs are between their start and their
\* end at the same time.
C7_OneRunAtATime ==
    \A t, u \in DOMAIN run : (Active(t) /\ Active(u)) => t = u

\* C7: the second of two concurrent runs over the same plan has moved a file
C7_Witness ==
    \E t, u \in DOMAIN run :
        /\ t # u
        /\ Active(t) /\ Active(u)
        /\ run[t].plan = run[u].plan
        /\ run[t].success_count > 0

\* C8 (terminal states are final): from the end of a run until the next preview
\* is shown the stored plan is empty, and a run whose thread starts in that
\* period takes no entry, moves no file and reports nothing.
C8_TerminalFinal ==
    /\ executed => preview = <<>>
    /\ \A t \in DOMAIN run :
           run[t].stale => /\ run[t].pc = "done"
                           /\ run[t].plan = <<>>
                           /\ run[t].log = <<>>
                           /\ run[t].success_count = 0

\* C8 witness: a run was requested again after the first run over the plan ended
C8_Witness ==
    \E t, u \in DOMAIN run :
        /\ t # u
        /\ run[t].pc = "done" /\ run[t].success_count > 0
        /\ run[u].stale
        /\ run[u].pc = "done"

NoOp(entry) == dirname(entry[1]) = dirname(entry[2])

\* run t is over, took a plan with subfolders included and had no failed entry
CleanRun(t) ==
    /\ include_subfolders
    /\ run[t].pc = "done"
    /\ run[t].plan # <<>>
    /\ CountKind(run[t].log, "error") = 0

\* run u executes the plan of the preview that followed run t
Repeats(u, t) == t \in DOMAIN run /\ CleanRun(t) /\ run[u].win = run[t].win + 1

C5_SecondPlanNoOp ==
    /\ \A t \in DOMAIN run :
           (CleanRun(t) /\ run[t].win + 1 \in DOMAIN wins) =>
               \A i \in DOMAIN wins[run[t].win + 1].shown :
                   NoOp(wins[run[t].win + 1].shown[i])
    /\ \A u \in DOMAIN run :
           (\E t \in DOMAIN run : Repeats(u, t)) =>
               /\ run[u].success_count = 0
               /\ \A i \in DOMAIN run[u].log : run[u].log[i].kind = "skipped"

PlanRoot(plan) == dirname(dirname(plan[1][2]))

\* C9 (pruning spares the scan root): the folder a run's plan was built for is
\* never removed, and with the delete-empty-folders option off no step removes a
\* directory.
C9_ScanRootKept ==
    /\ [](\A t \in DOMAIN run : run[t].plan # <<>> => PlanRoot(run[t].plan) \in dirs)
    /\ [][~delete_empty_folders => dirs \subseteq dirs']_vars

\* C9: the pruning that followed a run has removed the folder the run's plan was
\* built for, while the folder selected at that moment is kept
C9_Witness ==
    \E t \in DOMAIN run :
        /\ delete_empty_folders
        /\ run[t].pc \in {"clear", "done"}
        /\ run[t].plan # <<>>
        /\ PlanRoot(run[t].plan) \notin dirs
        /\ path \in dirs

C10_CancelledDeliversNothing ==
    \A s \in DOMAIN scan : scan[s].cancelled => scan[s].result # "delivered"

\* C10: the plan of a cancelled scan is the stored plan and is shown in a preview window
C10_Witness ==
    \E s \in DOMAIN scan :
        /\ scan[s].cancelled
        /\ scan[s].result = "delivered"
        /\ preview # <<>>
        /\ \E w \in DOMAIN wins : wins[w].state = "open" /\ wins[w].shown = preview

---------------------------------------------------------------------------
(* SpecPlan: one preview, of any strategy, or one duplicate search on a tree *)
(* of text files and photos                                                  *)

\* the files a tree of SpecPlan may start with
PlanCandidates ==
    {Root \o <<Txt("a", <<>>)>>, Root \o <<Dir("sub"), Txt("a", <<>>)>>,
     Root \o <<Nm("a", <<>>, "sh")>>, Root \o <<Nm("README", <<>>, "")>>,
     PartyJpg, UpperJpg, SubJpeg, BigJpg, LockedJpg, PoleJpg, HugeBin, EdgeBin}

InitPlan ==
    /\ \E F \in SUBSET PlanCandidates :
           /\ Cardinality(F) <= MaxFiles
           /\ IsTree(F)
           /\ InitTree(F)
    /\ include_subfolders \in BOOLEAN
    /\ delete_empty_folders = FALSE
    /\ path = Root
    /\ preview = <<>>
    /\ cancel_scan = FALSE
    /\ dialog = [id |-> 0, open |-> FALSE]
    /\ scan = <<>>
    /\ run = <<>>
    /\ wins = <<>>
    /\ afterQ = <<>>
    /\ faults = {}
    /\ executed = FALSE
    /\ removed = 0
    /\ probe = NoProbe
    /\ options = DefaultOptions

\* the date settings are changed at most once, and then a preview by date follows;
\* no Cancel button is pressed
PlanNext ==
    \/ scan = <<>> /\ options = DefaultOptions /\ SetDateOptions
    \/ scan = <<>> /\ options = DefaultOptions /\ ClickPreviewByType
    \/ scan = <<>> /\ options = DefaultOptions /\ ClickPreviewByCategory
    \/ scan = <<>> /\ ClickPreviewByDate
    \/ scan = <<>> /\ options = DefaultOptions /\ ClickPreviewByLocation
    \/ scan = <<>> /\ options = DefaultOptions /\ ClickFindDuplicates
    \/ \E s \in 1..MaxScans : ScanBegin(s)
    \/ \E s \in 1..MaxScans : ScanCount(s)
    \/ \E s \in 1..MaxScans : ScanList(s)
    \/ \E s \in 1..MaxScans : ScanProcess(s)
    \/ \E s \in 1..MaxScans : ScanHash(s)
    \/ \E s \in 1..MaxScans : LocList(s)
    \/ \E s \in 1..MaxScans : LocFile(s)
    \/ \E s \in 1..MaxScans : LocFinish(s)
    \/ RunCallback

SpecPlan == InitPlan /\ [][PlanNext]_vars

---------------------------------------------------------------------------
(* Functions applied on their own: the application state stays as it is and  *)
(* probe records the inputs and the result of the last application.         *)

appvars == <<files, dirs, path, include_subfolders, delete_empty_folders,
             preview, cancel_scan, dialog, scan, run, wins, afterQ, faults, executed,
             removed, options>>

Range(s) == {s[i] : i \in DOMAIN s}

---------------------------------------------------------------------------
(* C11: the two enumerators *)

ApplyGetFiles ==
    /\ \E out \in get_files(files, dirs, path, include_subfolders) :
           probe' = [op |-> "get_files", folder |-> path,
                     sub |-> include_subfolders, out |-> out]
    /\ UNCHANGED appvars

ApplyGetFilesWithProgress ==
    /\ \E out \in get_files_with_progress(files, dirs, path, include_subfolders) :
           probe' = [op |-> "get_files_with_progress", folder |-> path,
                     sub |-> include_subfolders, out |-> out]
    /\ UNCHANGED appvars

\* any tree, either setting of the checkbox, any folder of the tree selected
EnumNext ==
    \/ SelectFolder
    \/ ApplyGetFiles
    \/ ApplyGetFilesWithProgress

SpecEnum == InitSeq /\ [][EnumNext]_vars

\* the regular files the enumeration of folder is to yield
Expected(folder, sub) ==
    IF sub THEN {p \in DOMAIN files : Under(folder, p)}
    ELSE {p \in DOMAIN files : Len(p) = Len(folder) + 1 /\ Under(folder, p)}

\* C11: with subfolders not included both enumerators yield exactly the regular
\* files that are immediate children of the folder, with subfolders included
\* exactly the regular files of the whole tree below it, each file once
C11_Enumeration ==
    probe.op \in {"get_files", "get_files_with_progress"} =>
        /\ Range(probe.out) = Expected(probe.folder, probe.sub)
        /\ Len(probe.out) = Cardinality(Expected(probe.folder, probe.sub))

\* get_files without subfolders has yielded a child of the folder and left out a
\* file that lies deeper
C11_Witness ==
    /\ probe.op = "get_files"
    /\ ~probe.sub
    /\ probe.out # <<>>
    /\ \E p \in DOMAIN files : Under(probe.folder, p) /\ Len(p) > Len(probe.folder) + 1

---------------------------------------------------------------------------
(* C16: get_file_category on its own *)

\* the extensions of the files classified: every listed extension, some of them in
\* capitals, and extensions no category lists
CategoryExts ==
    {"", "xyz", "XYZ", "HEIC", "Heic", "JPG", "Jpeg", "SH", "Sh", "PDF", "TXT", "tar", "gz"}
    \cup {"jpg", "jpeg", "png", "gif", "bmp", "tiff", "webp", "svg", "heic"}
    \cup {"doc", "docx", "pdf", "txt", "rtf", "odt", "xls", "xlsx", "ppt", "pptx", "csv"}
    \cup {"mp4", "mov", "avi", "mkv", "wmv", "flv", "webm", "m4v", "mpg", "mpeg", "mts",
          "m2ts", "3gp"}
    \cup {"mp3", "wav", "aac", "flac", "ogg", "m4a", "wma", "aiff"}
    \cup {"zip", "rar", "7z", "iso", "bz2", "xz"}
    \cup {"py", "js", "html", "css", "java", "c", "cpp", "php", "rb", "go", "rs", "ts", "sh",
          "json", "xml"}
    \cup {"exe", "msi", "app", "bat", "apk", "deb", "rpm"}

CategoryInputs ==
    {d \o <<Nm(b, <<>>, e)>> :
        d \in {Root, Root \o <<Dir("sub")>>}, b \in {"photo", "a"}, e \in CategoryExts}

ApplyCategory ==
    /\ \E file_path \in CategoryInputs :
           probe' = [op |-> "get_file_category", file_path |-> file_path,
                     out |-> get_file_category(file_path)]
    /\ UNCHANGED appvars

SpecCategory == Init /\ [][ApplyCategory]_vars

\* the categories that list extension e, as positions of the table
Listing(e) == {i \in DOMAIN category_definitions : e \in category_definitions[i].extensions}

\* C16: the extension is compared in lower case; the result is the first category
\* in table order that lists it (.sh is Code, photo.HEIC is Images) and "Other"
\* for an extension no category lists or a name without extension
C16_Category ==
    probe.op = "get_file_category" =>
        LET ext == basename(probe.file_path).ext
            e == IF ext = "" THEN "" ELSE "." \o Lower(ext)
        IN  /\ Listing(e) = {} <=> probe.out = "Other"
            /\ Listing(e) # {} =>
                   \E i \in Listing(e) :
                       /\ probe.out = category_definitions[i].category
                       /\ \A j \in Listing(e) : i <= j
            /\ ext \in {"sh", "SH", "Sh"} => probe.out = "Code"
            /\ ext \in {"heic", "HEIC", "Heic"} => probe.out = "Images"
            /\ ext \in {"", "xyz", "XYZ"} => probe.out = "Other"

\* photo.HEIC has been classified as Images
C16_Witness ==
    /\ probe.op = "get_file_category"
    /\ basename(probe.file_path) = Nm("photo", <<>>, "HEIC")
    /\ probe.out = "Images"

---------------------------------------------------------------------------
(* C15: get_date_from_filename on its own *)

MaxTail == 1        \* texts that follow the first date-like text of a file name

YearTexts ==
    {<<"1", "8", "9", "9">>, <<"1", "9", "0", "0">>, <<"2", "0", "2", "3">>,
     <<"2", "0", "2", "4">>, <<"2", "1", "0", "1">>}

MonthTexts == {<<"0", "2">>, <<"0", "4">>, <<"1", "3">>}

DayTexts == {<<"0", "0">>, <<"2", "9">>, <<"3", "0">>, <<"3", "1">>}

\* the date-like texts: year-month-day with and without separators, day-month-year
\* and month-day-year
DateTexts ==
    {y \o <<"-">> \o m \o <<"-">> \o d : y \in YearTexts, m \in MonthTexts, d \in DayTexts}
    \cup {y \o <<"_">> \o m \o <<"_">> \o d : y \in YearTexts, m \in MonthTexts, d \in DayTexts}
    \cup {y \o m \o d : y \in YearTexts, m \in MonthTexts, d \in DayTexts}
    \cup {d \o <<"-">> \o m \o <<"-">> \o y : y \in YearTexts, m \in MonthTexts, d \in DayTexts}
    \cup {m \o <<"_">> \o d \o <<"_">> \o y : y \in YearTexts, m \in MonthTexts, d \in DayTexts}

OtherTexts == {<<"I", "M", "G", "_">>, <<"x">>, <<"_">>, <<"7">>}

\* the texts that may follow: other texts and a few more date-like texts
TailTexts ==
    OtherTexts
    \cup {<<"2", "0", "2", "4", "0", "2", "2", "9">>,
          <<"2", "0", "2", "3", "0", "2", "3", "0">>,
          <<"2", "9", "-", "0", "2", "-", "2", "0", "2", "4">>,
          <<"2", "0", "2", "4", "-", "0", "2", "-", "2", "9">>,
          <<"0", "2", "_", "2", "9", "_", "2", "0", "2", "4">>}

RECURSIVE Tails(_)
Tails(n) == IF n = 0 THEN {<<>>} ELSE Tails(n - 1) \cup {a \o b : a \in Tails(n - 1), b \in TailTexts}

\* the file names: a date-like text, possibly after another text, and at most n
\* texts after it
FileNames(n) ==
    {pre \o d \o t : pre \in OtherTexts \cup {<<>>}, d \in DateTexts, t \in Tails(n)}

InitFilenameDate ==
    /\ InitTree(SmallTree)
    /\ include_subfolders = TRUE
    /\ delete_empty_folders = TRUE
    /\ path = Root
    /\ preview = <<>>
    /\ cancel_scan = FALSE
    /\ dialog = [id |-> 0, open |-> FALSE]
    /\ scan = <<>>
    /\ run = <<>>
    /\ wins = <<>>
    /\ afterQ = <<>>
    /\ faults = {}
    /\ executed = FALSE
    /\ removed = 0
    /\ options = DefaultOptions
    /\ probe \in {[op |-> "filename", filename |-> f, out |-> None] : f \in FileNames(MaxTail)}

ApplyFilenameDate ==
    /\ probe.op = "filename"
    /\ probe' = [op |-> "get_date_from_filename", filename |-> probe.filename,
                 out |-> get_date_from_filename(probe.filename)]
    /\ UNCHANGED appvars

SpecFilenameDate == InitFilenameDate /\ [][ApplyFilenameDate]_vars

\* the text of a calendar date: the day exists in that month of that year
Calendar(date) ==
    /\ date.month \in 1..12
    /\ date.day >= 1
    /\ date.day <= (IF date.month = 2
                    THEN (IF date.year % 4 = 0 /\ (date.year % 100 # 0 \/ date.year % 400 = 0)
                          THEN 29 ELSE 28)
                    ELSE IF date.month \in {4, 6, 9, 11} THEN 30 ELSE 31)

TwentyThirtyText == <<"2", "0", "2", "3", "0", "2", "3", "0">>

\* C15: get_date_from_filename returns no date or a valid calendar date with its
\* year in [1900, 2100]; an impossible date such as 2023-02-30 is rejected and
\* the next pattern is tried; a name whose only date-like text is 20230230 has
\* no filename date
C15_CalendarValidity ==
    probe.op = "get_date_from_filename" =>
        /\ probe.out # None =>
               /\ Calendar(probe.out)
               /\ 1900 <= probe.out.year /\ probe.out.year <= 2100
        /\ \A pre, post \in {<<>>, <<"x">>, <<"_">>, <<"I", "M", "G", "_">>} :
               probe.filename = pre \o TwentyThirtyText \o post => probe.out = None

\* 20230230 was rejected by the pattern that matched it and a later pattern found
\* the date of the text that follows it
C15_Witness ==
    /\ probe.op = "get_date_from_filename"
    /\ probe.filename = TwentyThirtyText
                        \o <<"2", "9", "-", "0", "2", "-", "2", "0", "2", "4">>
    /\ probe.out = Date(2024, 2, 29)

---------------------------------------------------------------------------
(* C14: get_file_date on its own *)

\* the values of date_source: the four radio buttons and a value no button sets
DateSources == {"all", "filename", "exif", "filedate", "other"}

PartyText ==
    <<"2", "0", "2", "2", "-", "0", "3", "-", "0", "4", "_", "p", "a", "r", "t", "y">>

DateFiles ==
    {[chars |-> c, ext |-> e, exif |-> x, created |-> f] :
        c \in {PartyText, <<"p", "a", "r", "t", "y">>, TwentyThirtyText,
               <<"I", "M", "G", "_", "2", "0", "2", "1", "0", "1", "0", "1", "_", "1">>},
        e \in {"jpg", "JPG", "txt", ""},
        x \in {None, Date(2020, 1, 30)},
        f \in {Date(2024, 5, 6), Date(2022, 3, 4)}}

InitFileDate ==
    /\ InitTree(SmallTree)
    /\ include_subfolders = TRUE
    /\ delete_empty_folders = TRUE
    /\ path = Root
    /\ preview = <<>>
    /\ cancel_scan = FALSE
    /\ dialog = [id |-> 0, open |-> FALSE]
    /\ scan = <<>>
    /\ run = <<>>
    /\ wins = <<>>
    /\ afterQ = <<>>
    /\ faults = {}
    /\ executed = FALSE
    /\ removed = 0
    /\ options = DefaultOptions
    /\ probe \in {[op |-> "file", date_source |-> s, has_pil |-> h, file |-> f] :
                    s \in DateSources, h \in BOOLEAN, f \in DateFiles}

ApplyFileDate ==
    /\ probe.op = "file"
    /\ probe' = [op |-> "get_file_date", date_source |-> probe.date_source,
                 has_pil |-> probe.has_pil, file |-> probe.file,
                 out |-> get_file_date(probe.date_source, probe.has_pil, probe.file)]
    /\ UNCHANGED appvars

SpecFileDate == InitFileDate /\ [][ApplyFileDate]_vars

\* the sources a policy enables, in the order they are tried; the policy the
\* radio button "exif" sets is the metadata policy
EnabledSources(date_source) ==
    CASE date_source = "all" -> <<"filename", "exif", "filesystem">>
      [] date_source = "filename" -> <<"filename", "filesystem">>
      [] date_source = "exif" -> <<"exif", "filesystem">>
      [] OTHER -> <<"filesystem">>

\* what a source yields for a file
Yield(source, has_pil, file) ==
    CASE source = "filename" -> get_date_from_filename(file.chars)
      [] source = "exif" -> get_date_from_exif(has_pil, file)
      [] OTHER -> file.created

\* C14: get_file_date returns the first date found among the sources the policy
\* enables, tried in the order filename, metadata, filesystem; a source that is
\* not enabled is not consulted, no source is consulted after one has given a
\* date, and a date is always returned (2022-03-04_party.jpg under "all" gives
\* 4 March 2022)
C14_DatePolicy ==
    probe.op = "get_file_date" =>
        LET en == EnabledSources(probe.date_source)
            out == probe.out
            n == Len(out.consulted)
        IN  /\ n >= 1 /\ n <= Len(en)
            /\ out.consulted = SubSeq(en, 1, n)
            /\ out.date # None
            /\ out.date = Yield(en[n], probe.has_pil, probe.file)
            /\ \A k \in 1..(n - 1) : Yield(en[k], probe.has_pil, probe.file) = None
            /\ (probe.date_source = "all" /\ probe.file.chars = PartyText) =>
                   out.date = Date(2022, 3, 4)

\* under "filename" a name without date and with embedded metadata got the
\* filesystem date, the metadata not consulted
C14_Witness ==
    /\ probe.op = "get_file_date"
    /\ probe.date_source = "filename"
    /\ probe.has_pil
    /\ probe.file.ext = "jpg"
    /\ probe.file.exif # None
    /\ probe.out.consulted = <<"filename", "filesystem">>
    /\ probe.out.date = probe.file.created

---------------------------------------------------------------------------
(* C20: get_location_name on its own *)

\* coordinates: none, the zero pair, one zero, Paris, Rio de Janeiro, a tie in
\* the fifth decimal, a small negative latitude
GpsInputs ==
    {NoGps, Gps(0, 0), Gps(0, 235222), Gps(4885661, 235222), Gps(-2290685, -4317290),
     Gps(4885665, 5), Gps(-1, 12345)}

Granularities == {"country", "city", "exact", "other"}

\* an answer with status 200 and a JSON body
Answer(address, display_name) ==
    [kind |-> "http", status |-> 200, json |-> TRUE, address |-> address,
     display_name |-> display_name]

Responses ==
    {[kind |-> "import_error"], [kind |-> "error"],
     [kind |-> "http", status |-> 404, json |-> TRUE, address |-> <<>>, display_name |-> <<>>],
     [kind |-> "http", status |-> 500, json |-> FALSE, address |-> <<>>, display_name |-> <<>>],
     [kind |-> "http", status |-> 200, json |-> FALSE, address |-> <<>>, display_name |-> <<>>],
     Answer([city |-> "Paris", country |-> "France"], <<"Paris", " Ile-de-France", " France">>),
     Answer([town |-> "Z[u]rich", state |-> "Z[u]rich"], <<"Z[u]rich">>),
     Answer([country |-> "France"], <<"France">>),
     Answer([city |-> "[kanji]"], <<"[kanji]">>),
     Answer(<<>>, <<"Paris", " Ile-de-France", " France">>),
     Answer(<<>>, <<"Paris", " France">>),
     Answer(<<>>, <<"[kanji]">>),
     Answer(<<>>, <<>>)}

InitLocationName ==
    /\ InitTree(SmallTree)
    /\ include_subfolders = TRUE
    /\ delete_empty_folders = TRUE
    /\ path = Root
    /\ preview = <<>>
    /\ cancel_scan = FALSE
    /\ dialog = [id |-> 0, open |-> FALSE]
    /\ scan = <<>>
    /\ run = <<>>
    /\ wins = <<>>
    /\ afterQ = <<>>
    /\ faults = {}
    /\ executed = FALSE
    /\ removed = 0
    /\ options = DefaultOptions
    /\ probe \in {[op |-> "coordinates", gps_data |-> g, granularity |-> gr, response |-> r] :
                    g \in GpsInputs, gr \in Granularities, r \in Responses}

ApplyLocationName ==
    /\ probe.op = "coordinates"
    /\ probe' = [op |-> "get_location_name", gps_data |-> probe.gps_data,
                 granularity |-> probe.granularity, response |-> probe.response,
                 out |-> get_location_name(probe.gps_data, probe.granularity,
                                           probe.response)]
    /\ UNCHANGED appvars

SpecLocationName == InitLocationName /\ [][ApplyLocationName]_vars

\* the texts of coordinate x with four decimals: the sign of x and a magnitude of
\* n/10000 that is within half of 1/10000 of the magnitude of x
FourDecimals(x) ==
    LET a == IF x < 0 THEN 0 - x ELSE x
    IN  {(IF x < 0 THEN "-" ELSE "") \o ToString(n \div 10000) \o "."
            \o Pad4(n % 10000) :
         n \in {m \in {a \div 10, a \div 10 + 1} : 10 * m - a <= 5 /\ a - 10 * m <= 5}}

\* the request has failed: no library, an exception, a status other than 200 or a
\* body that is not JSON
RequestFailed(response) ==
    \/ response.kind \in {"import_error", "error"}
    \/ response.kind = "http" /\ (response.status # 200 \/ ~response.json)

\* C20: get_location_name raises nothing; when the request fails it returns
\* GPS(lat,lon) with four decimals and logs the failure
C20_GeocodingFallback ==
    probe.op = "get_location_name" =>
        /\ ~probe.out.raised
        /\ (/\ probe.gps_data.present
            /\ probe.gps_data.latitude # 0 \/ probe.gps_data.longitude # 0
            /\ RequestFailed(probe.response)) =>
               /\ \E a \in FourDecimals(probe.gps_data.latitude),
                     b \in FourDecimals(probe.gps_data.longitude) :
                      probe.out.name = "GPS(" \o a \o "," \o b \o ")"
               /\ \E i \in DOMAIN probe.out.log :
                      probe.out.log[i] \in {"warning", "error", "api_error"}

\* the service answered 500 for the coordinates of Paris and the name is the
\* coordinates rounded to four decimals
C20_Witness ==
    /\ probe.op = "get_location_name"
    /\ probe.gps_data = Gps(4885661, 235222)
    /\ probe.response.kind = "http" /\ probe.response.status = 500
    /\ probe.out.name = "GPS(48.8566,2.3522)"

---------------------------------------------------------------------------
(* C12, C13, C17, C18, C19: the builders and the duplicate search in SpecPlan *)

\* C12: generating a preview with any strategy (type, category, date, location)
\* and searching for duplicates creates, moves, renames and deletes nothing: every
\* step of the threads and of the event loop leaves the tree as it is
C12_TreeUnchanged == [][files' = files /\ dirs' = dirs]_vars

\* a plan by location has been delivered and is shown in the preview window
C12_Witness ==
    \E s \in DOMAIN scan :
        /\ scan[s].strategy = "location"
        /\ scan[s].result = "delivered"
        /\ preview = scan[s].plan
        /\ preview # <<>>
        /\ wins # <<>>

\* the plans the threads have delivered, with the strategy and the scanned folder
Delivered ==
    {s \in DOMAIN scan : scan[s].result = "delivered" /\ scan[s].plan # <<>>}

\* the folder names under which the location builder may file source: the names
\* get_location_name can return for its coordinates, as folder names
LocationKeys(source) ==
    {"Unknown Location"} \cup
    {safe_location(get_location_name(get_gps_data(options.has_pil, files, source),
                                     options.location_granularity, r).name) :
        r \in GeoAnswers}

\* the names get_location_name can return for the coordinates of source
LocationNames(source) ==
    {"Unknown Location"} \cup
    {get_location_name(get_gps_data(options.has_pil, files, source),
                       options.location_granularity, r).name : r \in GeoAnswers}

\* the key of the type, category and date strategies for source
KeyOf(strategy, source) ==
    CASE strategy = "type" -> TypeKey(basename(source))
      [] strategy = "category" -> get_file_category(source)
      [] OTHER -> strftime(get_file_date(options.date_source, options.has_pil,
                                         FileRecord(files, source)).date,
                           options.date_format)

\* destination = root/key/basename(source)
UnderKey(root, key, source, destination) ==
    destination = root \o <<Nm(key, <<>>, ""), basename(source)>>

Searched ==
    {s \in DOMAIN scan : scan[s].strategy = "duplicates"
                         /\ scan[s].result \in {"found", "none"}}

\* the paths of the group kept under digest h
Members(s, h) == Range(scan[s].groups[h])

\* the enumerated files whose content the search has read: not above the ceiling
\* of 100 MB and readable
Hashed(s) ==
    {f \in Range(scan[s].files) :
        Attr(files[f]).readable /\ Attr(files[f]).size <= 100 * MB}

\* C17: the groups a duplicate search returns have at least 2 paths each, all
\* paths of a group have the same digest, two hashed files with the same digest
\* are in the same group, no path is in two groups (nor twice in one), and a
\* file whose digest no other enumerated file shares is in no group
C17_DuplicateGrouping ==
    \A s \in Searched :
        LET groups == scan[s].groups
        IN  /\ \A h \in DOMAIN groups :
                   /\ Cardinality(Members(s, h)) >= 2
                   /\ Cardinality(Members(s, h)) = Len(groups[h])
                   /\ \A f, g \in Members(s, h) :
                          Attr(files[f]).digest = Attr(files[g]).digest
            /\ \A f, g \in Hashed(s) :
                   f # g /\ Attr(files[f]).digest = Attr(files[g]).digest
                       => \E h \in DOMAIN groups : {f, g} \subseteq Members(s, h)
            /\ \A h, k \in DOMAIN groups :
                   h # k => Members(s, h) \cap Members(s, k) = {}
            /\ \A f \in Range(scan[s].files) :
                   (\A g \in Range(scan[s].files) \ {f} :
                        Attr(files[g]).digest # Attr(files[f]).digest)
                       => \A h \in DOMAIN groups : f \notin Members(s, h)

\* a search has found the two photographs with the same bytes and has left the
\* third photograph, whose digest is its own, out of every group
C17_Witness ==
    \E s \in Searched :
        /\ scan[s].result = "found"
        /\ \E h \in DOMAIN scan[s].groups : Members(s, h) = {PartyJpg, BigJpg}
        /\ PoleJpg \in Hashed(s)
        /\ \A h \in DOMAIN scan[s].groups : PoleJpg \notin Members(s, h)

\* the enumerated files the search cannot hash: unreadable, or above 100 MB
Failing(s) == Range(scan[s].files) \ Hashed(s)

\* C18: a file that cannot be read or that is larger than 100 MB is in no
\* duplicate group, and the search goes on over the remaining files: it ends with
\* its groups or with none, and two remaining files with the same digest are
\* grouped
C18_FailureIsolation ==
    \A s \in DOMAIN scan :
        scan[s].strategy = "duplicates" /\ scan[s].pc = "done" /\ scan[s].files # <<>>
            => /\ s \in Searched
               /\ \A f \in Failing(s) :
                      \A h \in DOMAIN scan[s].groups : f \notin Members(s, h)
               /\ \A f, g \in Hashed(s) :
                      f # g /\ Attr(files[f]).digest = Attr(files[g]).digest
                          => \E h \in DOMAIN scan[s].groups :
                                 {f, g} \subseteq Members(s, h)

\* a search over a file above the ceiling or an unreadable file and two files
\* with the bytes of that file has grouped the two and not the first
C18_Witness ==
    \E s \in Searched :
        \E f \in Failing(s) :
            \E h \in DOMAIN scan[s].groups :
                /\ f \notin Members(s, h)
                /\ \A g \in Members(s, h) :
                       Attr(files[g]).digest = Attr(files[f]).digest

\* whether valid coordinates other than (0, 0) can be extracted from image f
Located(f) ==
    LET gps == Attr(files[f]).gps
    IN  /\ Attr(files[f]).readable
        /\ Attr(files[f]).size <= 30 * MB
        /\ gps.present
        /\ gps.latitude \in (0 - 90 * 100000)..(90 * 100000)
        /\ gps.longitude \in (0 - 180 * 100000)..(180 * 100000)
        /\ gps.latitude # 0 \/ gps.longitude # 0

\* C19: in a plan by location every enumerated image has exactly one entry, under
\* the folder of its location name when valid coordinates other than (0, 0) are
\* extracted and under "Unknown Location" in every other case
C19_LocationTotal ==
    \A s \in Delivered :
        scan[s].strategy = "location"
            => \A f \in Range(scan[s].files) :
                   LET entries == {i \in DOMAIN scan[s].plan : scan[s].plan[i][1] = f}
                   IN  /\ Cardinality(entries) = 1
                       /\ \A i \in entries :
                              LET key == basename(dirname(scan[s].plan[i][2])).base
                              IN  IF Located(f)
                                  THEN key \in LocationKeys(f) \ {"Unknown Location"}
                                  ELSE key = "Unknown Location"

---------------------------------------------------------------------------
(* C21: _convert_gps_coords and the coordinates of                         *)
(* _extract_gps_with_exception_trap on their own                           *)

\* the unit of the converted values: halves of a second of arc, in which the
\* components of the model convert without remainder
PerDegree == 2 * 3600

\* the three forms of a component of a GPS tag: an object with numerator and
\* denominator, a pair, a plain number
Rational(n, d) == [kind |-> "rational", num |-> n, den |-> d]

Pair(n, d) == [kind |-> "tuple", num |-> n, den |-> d]

Number(n) == [kind |-> "number", num |-> n, den |-> 1]

\* float(n) / float(d) in units of 1/scale, d # 0
Quotient(n, d, scale) ==
    IF d > 0
    THEN (IF n >= 0 THEN (n * scale) \div d ELSE 0 - ((0 - n) * scale) \div d)
    ELSE (IF n >= 0 THEN 0 - ((n * scale) \div (0 - d)) ELSE ((0 - n) * scale) \div (0 - d))

\* one component without the test of the denominator: the division by zero
\* raises, which the except clause of the function turns into None
ComponentUnguarded(c, scale) ==
    IF c.kind = "number" THEN [value |-> c.num * scale, error |-> FALSE]
    ELSE IF c.den # 0 THEN [value |-> Quotient(c.num, c.den, scale), error |-> FALSE]
         ELSE [value |-> 0, error |-> TRUE]

\* one component: degrees = minutes = seconds = 0 at first, and the quotient is
\* taken only when the denominator is not 0
Component(c, scale) ==
    IF c.kind = "number" THEN [value |-> c.num * scale, error |-> FALSE]
    ELSE IF c.den # 0 THEN [value |-> Quotient(c.num, c.den, scale), error |-> FALSE]
         ELSE [value |-> 0, error |-> FALSE]

\* the final validation: degrees < 0 or degrees > 180 or minutes < 0 or
\* minutes >= 60 or seconds < 0 or seconds >= 60 gives None; minutes are held in
\* units of 1/120 minute and seconds in halves of a second
ComponentsValid(degrees, minutes, seconds) ==
    ~(degrees < 0 \/ degrees > 180 * PerDegree
      \/ minutes < 0 \/ minutes >= 60 * (PerDegree \div 60)
      \/ seconds < 0 \/ seconds >= 60 * (PerDegree \div 3600))

NoDecimal == [present |-> FALSE, decimal |-> 0, error |-> FALSE]

\* _convert_gps_coords: None unless coords has three components; the decimal
\* degrees, degrees + minutes / 60.0 + seconds / 3600.0
convert_gps_coords(coords) ==
    IF Len(coords) # 3 THEN NoDecimal
    ELSE LET degrees == Component(coords[1], PerDegree)
             minutes == Component(coords[2], PerDegree \div 60)
             seconds == Component(coords[3], PerDegree \div 3600)
         IN  IF degrees.error \/ minutes.error \/ seconds.error
             THEN [present |-> FALSE, decimal |-> 0, error |-> TRUE]
             ELSE IF ~ComponentsValid(degrees.value, minutes.value, seconds.value)
                  THEN NoDecimal
                  ELSE [present |-> TRUE,
                        decimal |-> degrees.value + minutes.value + seconds.value,
                        error |-> FALSE]

\* the tags of an image without GPSLatitude or without GPSLongitude
Missing == <<"missing">>

\* _extract_gps_with_exception_trap from the GPS tags on: None without one of the
\* two tags, when a conversion gives None and for abs(lat) > 90 or
\* abs(lon) > 180; the reference directions S and W change the sign
extract_coordinates(tags) ==
    IF tags.GPSLatitude = Missing \/ tags.GPSLongitude = Missing
    THEN [gps |-> NoGps, error |-> FALSE]
    ELSE LET lat == convert_gps_coords(tags.GPSLatitude)
             lon == convert_gps_coords(tags.GPSLongitude)
             latitude == IF tags.GPSLatitudeRef = "S" THEN 0 - lat.decimal
                         ELSE lat.decimal
             longitude == IF tags.GPSLongitudeRef = "W" THEN 0 - lon.decimal
                          ELSE lon.decimal
             error == lat.error \/ lon.error
         IN  IF ~lat.present \/ ~lon.present THEN [gps |-> NoGps, error |-> error]
             ELSE IF latitude > 90 * PerDegree \/ latitude < 0 - 90 * PerDegree
                     \/ longitude > 180 * PerDegree \/ longitude < 0 - 180 * PerDegree
                  THEN [gps |-> NoGps, error |-> error]
                  ELSE [gps |-> Gps(latitude, longitude), error |-> error]

\* the components of the tags that are drawn
DegreeComponents ==
    {Rational(48, 1), Rational(95, 1), Rational(90, 1), Rational(181, 2),
     Rational(180, 1), Rational(10, 1), Rational(5, 0), Pair(10, 1), Pair(7, 0),
     Pair(5, 0 - 1), Number(0), Number(0 - 3)}

SixtiethComponents ==
    {Rational(0, 1), Rational(30, 1), Rational(60, 1), Rational(119, 2),
     Rational(120, 2), Rational(1, 0), Pair(61, 0), Number(59), Number(0 - 1)}

Triples ==
    {<<d, m, s>> : d \in DegreeComponents, m \in SixtiethComponents,
                   s \in SixtiethComponents}

FewTriples ==
    {<<Rational(48, 1), Rational(30, 1), Rational(0, 1)>>,
     <<Rational(10, 1), Rational(0, 1), Rational(0, 1)>>,
     <<Rational(0, 1), Rational(0, 1), Rational(0, 1)>>}

OtherCoords == {Missing, <<Rational(48, 1), Rational(30, 1)>>}

TagInputs ==
    {[GPSLatitude |-> a, GPSLatitudeRef |-> ar, GPSLongitude |-> o, GPSLongitudeRef |-> or] :
        a \in Triples \cup OtherCoords, ar \in {"N", "S"},
        o \in FewTriples, or \in {"E", "W"}}
    \cup
    {[GPSLatitude |-> a, GPSLatitudeRef |-> ar, GPSLongitude |-> o, GPSLongitudeRef |-> or] :
        a \in FewTriples, ar \in {"N", "S"},
        o \in Triples \cup OtherCoords, or \in {"E", "W"}}

InitCoordinates ==
    /\ InitTree(SmallTree)
    /\ include_subfolders = TRUE
    /\ delete_empty_folders = TRUE
    /\ path = Root
    /\ preview = <<>>
    /\ cancel_scan = FALSE
    /\ dialog = [id |-> 0, open |-> FALSE]
    /\ scan = <<>>
    /\ run = <<>>
    /\ wins = <<>>
    /\ afterQ = <<>>
    /\ faults = {}
    /\ executed = FALSE
    /\ removed = 0
    /\ options = DefaultOptions
    /\ probe \in {[op |-> "tags", tags |-> t] : t \in TagInputs}

ApplyExtractCoordinates ==
    /\ probe.op = "tags"
    /\ probe' = [op |-> "extract_coordinates", tags |-> probe.tags,
                 out |-> extract_coordinates(probe.tags)]
    /\ UNCHANGED appvars

SpecCoordinates == InitCoordinates /\ [][ApplyExtractCoordinates]_vars

\* whether component c, held by the code as 0 when its denominator is 0, lies
\* in [0, 60)
InSixty(c) ==
    \/ c.kind # "number" /\ c.den = 0
    \/ c.den > 0 /\ c.num >= 0 /\ c.num < 60 * c.den
    \/ c.den < 0 /\ c.num <= 0 /\ 0 - c.num < 60 * (0 - c.den)

\* C21: the coordinates extracted from GPS tags have |latitude| <= 90 and
\* |longitude| <= 180, their minutes and seconds components lie in [0, 60), and
\* no division by a zero denominator is evaluated
C21_CoordinateBounds ==
    probe.op = "extract_coordinates"
        => /\ ~probe.out.error
           /\ probe.out.gps.present
                  => /\ probe.out.gps.latitude <= 90 * PerDegree
                     /\ probe.out.gps.latitude >= 0 - 90 * PerDegree
                     /\ probe.out.gps.longitude <= 180 * PerDegree
                     /\ probe.out.gps.longitude >= 0 - 180 * PerDegree
                     /\ \A i \in {2, 3} : /\ InSixty(probe.tags.GPSLatitude[i])
                                          /\ InSixty(probe.tags.GPSLongitude[i])

\* the latitude of 95 degrees has been reported absent
C21_Witness ==
    /\ probe.op = "extract_coordinates"
    /\ probe.tags.GPSLatitude = <<Rational(95, 1), Rational(0, 1), Rational(0, 1)>>
    /\ probe.tags.GPSLongitude = <<Rational(10, 1), Rational(0, 1), Rational(0, 1)>>
    /\ ~probe.out.gps.present

---------------------------------------------------------------------------
(* C22: the options while a run is in progress *)

\* previews and runs one after the other, and the check box of the pruning option
\* clicked at any moment
OptionsNext ==
    \/ SeqNext
    \/ Prompt /\ ClickDeleteEmptyFolders

SpecOptions == InitSeq /\ [][OptionsNext]_vars

\* C22: the options are fixed for the duration of a cycle: the step that ends the
\* loop of a run prunes the empty folders if and only if the option was on when
\* the run was confirmed, whatever was clicked while the run was in progress
C22_ConfigurationSnapshot ==
    [][\A t \in DOMAIN run :
           run[t].pc = "finish" /\ run'[t].pc = "clear"
               => dirs' = IF run[t].delete_empty
                          THEN remove_empty_dirs(files, dirs, path, path)
                          ELSE dirs]_vars

---------------------------------------------------------------------------
(* C23: the preview by location when the geocoding service may stay silent *)

LocStep(s) == LocList(s) \/ LocFile(s) \/ LocWait(s) \/ LocFinish(s)

GeoNext ==
    \/ scan = <<>> /\ ClickPreviewByLocation
    \/ \E s \in 1..MaxScans : LocList(s)
    \/ \E s \in 1..MaxScans : LocFile(s)
    \/ \E s \in 1..MaxScans : LocWait(s)
    \/ \E s \in 1..MaxScans : LocFinish(s)
    \/ RunCallback

\* the thread of the preview is scheduled as long as it can take a step, and the
\* event loop runs the queued callbacks
SpecGeo ==
    /\ InitPlan
    /\ [][GeoNext]_vars
    /\ WF_vars(RunCallback)
    /\ \A s \in 1..MaxScans : WF_vars(s \in DOMAIN scan /\ LocStep(s))

\* C23: a geocoding call that receives no response is given up after a bounded
\* wait, so that every preview by location that was started comes to its end
C23_GeocodingTimeout ==
    \A s \in 1..MaxScans :
        [](s \in DOMAIN scan => <>(s \in DOMAIN scan /\ scan[s].pc = "done"))

---------------------------------------------------------------------------
(* C24: the configuration file: load_config, the settings of __init__,     *)
(* save_config                                                              *)

\* a JSON object with the keys of the configuration, each key absent (<<>>) or
\* present with its value (<<value>>)
Config(cd, sub, src, fmt, del, last, recent) ==
    [category_definitions |-> cd, include_subfolders |-> sub, date_source |-> src,
     date_format |-> fmt, delete_empty_folders |-> del, last_directory |-> last,
     recent_folders |-> recent]

EmptyConfig == Config(<<>>, <<>>, <<>>, <<>>, <<>>, <<>>, <<>>)

\* ~/.file_organizer_config.json: missing, unreadable as JSON, or an object
NoFile == [exists |-> FALSE, valid |-> FALSE, json |-> EmptyConfig]

CorruptFile == [exists |-> TRUE, valid |-> FALSE, json |-> EmptyConfig]

JsonFile(config) == [exists |-> TRUE, valid |-> TRUE, json |-> config]

\* load_config: json.load of the file, {} when it is missing or cannot be parsed
load_config(file) == IF file.exists /\ file.valid THEN file.json ELSE EmptyConfig

\* self.config.get(key, default) on one key
GetOr(entry, default) == IF entry = <<>> THEN default ELSE entry[1]

\* __init__: the settings taken from the loaded configuration, with their defaults
Settings(config) ==
    [category_definitions |-> GetOr(config.category_definitions, category_definitions),
     include_subfolders |-> GetOr(config.include_subfolders, FALSE),
     delete_empty_folders |-> GetOr(config.delete_empty_folders, FALSE),
     date_source |-> GetOr(config.date_source, "all"),
     date_format |-> GetOr(config.date_format, "day"),
     last_directory |-> GetOr(config.last_directory, "~"),
     recent_folders |-> GetOr(config.recent_folders, <<>>)]

\* save_config: json.dump of the six keys last_directory, include_subfolders,
\* date_source, date_format, delete_empty_folders and recent_folders
save_config(settings) ==
    JsonFile(Config(<<>>, <<settings.include_subfolders>>, <<settings.date_source>>,
                    <<settings.date_format>>, <<settings.delete_empty_folders>>,
                    <<settings.last_directory>>, <<settings.recent_folders>>))

\* a category table supplied by the user
CustomCategories ==
    << [category |-> "Scripts", extensions |-> {".sh", ".py"}],
       [category |-> "Pictures", extensions |-> {".jpg"}] >>

ConfigFiles ==
    {NoFile, CorruptFile} \cup
    {JsonFile(Config(cd, sub, src, fmt, del, <<>>, <<>>)) :
        cd \in {<<>>, <<CustomCategories>>}, sub \in {<<>>, <<TRUE>>},
        src \in {<<>>, <<"exif">>}, fmt \in {<<>>, <<"year">>},
        del \in {<<>>, <<TRUE>>}}

InitConfig ==
    /\ InitTree(SmallTree)
    /\ include_subfolders = TRUE
    /\ delete_empty_folders = TRUE
    /\ path = Root
    /\ preview = <<>>
    /\ cancel_scan = FALSE
    /\ dialog = [id |-> 0, open |-> FALSE]
    /\ scan = <<>>
    /\ run = <<>>
    /\ wins = <<>>
    /\ afterQ = <<>>
    /\ faults = {}
    /\ executed = FALSE
    /\ removed = 0
    /\ options = DefaultOptions
    /\ probe \in {[op |-> "closed", file |-> f, settings |-> Settings(EmptyConfig),
                   saved |-> FALSE] : f \in ConfigFiles}

\* the program is started: __init__ loads the configuration
Launch ==
    /\ probe.op = "closed"
    /\ probe' = [op |-> "open", file |-> probe.file,
                 settings |-> Settings(load_config(probe.file)), saved |-> probe.saved]
    /\ UNCHANGED appvars

\* a radio button of the date source or the check box of the subfolders
ChangeSetting ==
    /\ probe.op = "open"
    /\ \/ \E src \in {"all", "filename", "exif", "filedate"} :
              probe' = [probe EXCEPT !.settings.date_source = src]
       \/ probe' = [probe EXCEPT !.settings.include_subfolders = ~@]
    /\ UNCHANGED appvars

\* confirm_delete_empty: the option changes and the configuration is saved
ConfirmDeleteEmpty ==
    /\ probe.op = "open"
    /\ LET settings == [probe.settings EXCEPT !.delete_empty_folders = ~@]
       IN  probe' = [op |-> "open", file |-> save_config(settings),
                     settings |-> settings, saved |-> TRUE]
    /\ UNCHANGED appvars

\* on_closing: save_config, then the window is destroyed
OnClosing ==
    /\ probe.op = "open"
    /\ probe' = [op |-> "closed", file |-> save_config(probe.settings),
                 settings |-> probe.settings, saved |-> TRUE]
    /\ UNCHANGED appvars

ConfigNext == Launch \/ ChangeSetting \/ ConfirmDeleteEmpty \/ OnClosing

SpecConfig == InitConfig /\ [][ConfigNext]_vars

\* C24: the category table survives a save of the configuration: the table the
\* program obtains when it loads the configuration it has saved is the table
\* that was in use before the save
C24_CategoryRoundTrip ==
    [][probe.op = "closed" /\ probe.saved /\ probe'.op = "open"
           => probe'.settings.category_definitions
                  = probe.settings.category_definitions]_vars

---------------------------------------------------------------------------
(* C25: the files across the steps of a run *)

\* the contents held by the files of the tree
Contents == {files[p] : p \in DOMAIN files}

\* the final paths of the entries the runs have moved
MovedTo == {<<t, i>> \in (DOMAIN run) \X (1..MaxFiles + 1) :
                i \in DOMAIN run[t].log /\ run[t].log[i].kind = "moved"}

\* no two files hold the same content and no two moved entries have the same
\* final path
C25_OnePathEach ==
    /\ Cardinality(Contents) = Cardinality(DOMAIN files)
    /\ \A x, y \in MovedTo :
           x # y => run[x[1]].log[x[2]].dst # run[y[1]].log[y[2]].dst

\* a step keeps every file at its path, or it is the move of an entry: the source
\* of the entry goes to the final path of the entry, where no file was, and every
\* other file stays
C25_StepKeepsFiles ==
    \/ files' = files
    \/ \E t \in DOMAIN run :
           LET src == run[t].plan[run[t].idx][1]
               fin == run[t].final_dst
           IN  /\ run[t].pc = "move"
               /\ src \in DOMAIN files
               /\ fin \notin DOMAIN files
               /\ DOMAIN files' = ((DOMAIN files) \ {src}) \cup {fin}
               /\ files'[fin] = files[src]
               /\ \A p \in (DOMAIN files) \ {src} : files'[p] = files[p]
               /\ run[t].idx \in DOMAIN run'[t].log
               /\ run'[t].log[run[t].idx] = LogLine("moved", src, fin)

\* C25: a run destroys no data: every file that existed before the run exists
\* afterwards at exactly one path, the path it had if its entry was skipped or
\* failed, the final path of its entry if it was moved; no move replaces a file
\* and no two entries end at the same final path
C25_NoDataLoss == []C25_OnePathEach /\ [][C25_StepKeepsFiles]_vars

\* the tree of the race: a file without extension named TXT stands where the
\* folder of the .txt files is to be made
RaceTree ==
    {Root \o <<Txt("a", <<>>)>>, Root \o <<Dir("TXT")>>,
     Root \o <<Dir("sub"), Txt("a", <<>>)>>}

InitRace ==
    /\ InitTree(RaceTree)
    /\ include_subfolders = TRUE
    /\ delete_empty_folders = TRUE
    /\ InitApp

\* every sequence of clicks in the preview window, two runs at a time included
SpecRace == InitRace /\ [][ClicksNext]_vars

---------------------------------------------------------------------------
(* C26: a second preview while a preview window is open or a run is in     *)
(* progress                                                                 *)

\* previews by type and by category at any moment the main window accepts a
\* click, and every click in the preview windows
PreviewsNext ==
    \/ ClickPreviewByType
    \/ ClickPreviewByCategory
    \/ \E s \in 1..MaxScans : ScanBegin(s)
    \/ \E s \in 1..MaxScans : ScanCount(s)
    \/ \E s \in 1..MaxScans : ScanList(s)
    \/ \E s \in 1..MaxScans : ScanProcess(s)
    \/ \E w \in 1..MaxScans : ClickExecute(w)
    \/ \E w \in 1..MaxScans : ClickYes(w)
    \/ RunCallback
    \/ \E t \in 1..MaxRuns : ExecStep(t)

InitOneFile ==
    /\ InitTree({Root \o <<Txt("a", <<>>)>>})
    /\ include_subfolders = TRUE
    /\ delete_empty_folders = FALSE
    /\ InitApp

SpecPreviews == InitOneFile /\ [][PreviewsNext]_vars

\* the entries a run has taken are the entries listed in its window
C26_PlanOfItsWindow ==
    \A t \in DOMAIN run :
        run[t].plan # <<>> => run[t].plan = wins[run[t].win].shown

\* the last statement of a run empties only the plan the run has executed
C26_DiscardsItsOwnPlan ==
    \A t \in DOMAIN run :
        run[t].pc = "clear" /\ run'[t].pc = "done" /\ preview # <<>>
            => preview = run[t].plan

\* C26: a run executes exactly the entries listed in the preview window whose
\* Execute was confirmed, whatever previews are generated meanwhile, and the run
\* that finishes does not discard a plan it did not execute
C26_RunOfItsWindow == []C26_PlanOfItsWindow /\ [][C26_DiscardsItsOwnPlan]_vars

---------------------------------------------------------------------------
(* C27, C28: the pruning step *)

\* the step of run t that follows its loop
Pruning(t) == t \in DOMAIN run /\ run[t].pc = "finish" /\ run'[t].pc = "clear"

\* C27: the pruning step of a run removes only directories strictly below the
\* folder the plan of the run was built for, whatever folder is selected when the
\* run ends
C27_PruningScope ==
    [][\A t \in 1..MaxRuns :
           Pruning(t) /\ run[t].plan # <<>>
               => \A d \in dirs \ dirs' :
                      /\ IsPrefix(PlanRoot(run[t].plan), d)
                      /\ d # PlanRoot(run[t].plan)]_vars

\* the directories and files a tree to prune is drawn from
PruneDirs ==
    {Root \o <<Dir("a")>>, Root \o <<Dir("a"), Dir("b")>>, Root \o <<Dir("c")>>}

PruneFiles ==
    {Root \o <<Txt("f", <<>>)>>, Root \o <<Dir("a"), Dir("b"), Txt("f", <<>>)>>,
     Root \o <<Dir("c"), Txt("f", <<>>)>>}

\* the trees: every directory has its parent, every file its directory
PruneTrees ==
    {[fl |-> [f \in F |-> f], ds |-> {Root} \cup D] :
        D \in {E \in SUBSET PruneDirs : \A d \in E : dirname(d) \in {Root} \cup E},
        F \in SUBSET PruneFiles}

\* a call remove_empty_dirs(root): root is the argument, evaluated by the caller
\* (lines 1026, 2153); selected is what self.path.get() returns at line 2277, read
\* by the worker thread while the entry field of the main window stays editable
InitPrune ==
    /\ InitTree(SmallTree)
    /\ include_subfolders = TRUE
    /\ delete_empty_folders = TRUE
    /\ path = Root
    /\ preview = <<>>
    /\ cancel_scan = FALSE
    /\ dialog = [id |-> 0, open |-> FALSE]
    /\ scan = <<>>
    /\ run = <<>>
    /\ wins = <<>>
    /\ afterQ = <<>>
    /\ faults = {}
    /\ executed = FALSE
    /\ removed = 0
    /\ options = DefaultOptions
    /\ probe \in {[op |-> "tree", fl |-> t.fl, ds |-> t.ds, root |-> r, selected |-> s] :
                     t \in {u \in PruneTrees : \A f \in DOMAIN u.fl : dirname(f) \in u.ds},
                     r \in {Root} \cup PruneDirs, s \in {Root} \cup PruneDirs}
    /\ probe.root \in probe.ds
    /\ probe.selected \in probe.ds

ApplyRemoveEmptyDirs ==
    /\ probe.op = "tree"
    /\ probe' = [probe EXCEPT !.op = "remove_empty_dirs",
                              !.ds = remove_empty_dirs(probe.fl, probe.ds, probe.root,
                                                       probe.selected)]
    /\ UNCHANGED appvars

SpecPrune == InitPrune /\ [][ApplyRemoveEmptyDirs]_vars

\* C28: after remove_empty_dirs(root) no empty directory is left strictly below
\* the root, and every file still has all the directories above it
C28_PruningComplete ==
    probe.op = "remove_empty_dirs"
        => /\ \A d \in probe.ds : Under(probe.root, d) => ~is_dir_empty(probe.fl, probe.ds, d)
           /\ \A f \in DOMAIN probe.fl : \A k \in 1..(Len(f) - 1) :
                  SubSeq(f, 1, k) \in probe.ds

---------------------------------------------------------------------------
(* C29: the progress callbacks *)

\* the event loop runs a scheduled update_progress(value)
ProgressRuns ==
    afterQ # <<>> /\ Head(afterQ).op = "progress" /\ afterQ' = Tail(afterQ)

\* C29: whenever a scheduled update_progress(value) runs, the current plan is not
\* empty and value is at most its length
C29_ProgressSafe ==
    [][ProgressRuns => preview # <<>> /\ Head(afterQ).n <= Len(preview)]_vars

---------------------------------------------------------------------------
(* C30: the duplicate manager, show_duplicate_manager.  The state of the     *)
(* dialog is the record [duplicate_groups, idx, file_selections, exists,     *)
(* created, duplicates]: the groups still listed, the number of the group    *)
(* displayed, the check marks kept across groups, the files that exist, the  *)
(* creation date of each file and the groups the dialog was opened with.     *)
(* The check boxes are left as the dialog sets them.                         *)

\* datetime comparison a > b
Later(a, b) ==
    \/ a.year > b.year
    \/ a.year = b.year /\ a.month > b.month
    \/ a.year = b.year /\ a.month = b.month /\ a.day > b.day

RECURSIVE InsertNewestFirst(_, _, _)
\* file_path takes its place behind the files that are not older than it
InsertNewestFirst(file_path, sorted, created) ==
    IF sorted = <<>> THEN <<file_path>>
    ELSE IF Later(created[file_path], created[Head(sorted)])
         THEN <<file_path>> \o sorted
         ELSE <<Head(sorted)>> \o InsertNewestFirst(file_path, Tail(sorted), created)

RECURSIVE sorted_files(_, _)
\* sorted(current_group, key=get_file_creation_date, reverse=True); the sort is
\* stable, files of the same date keep the order of the group
sorted_files(current_group, created) ==
    IF current_group = <<>> THEN <<>>
    ELSE InsertNewestFirst(current_group[Len(current_group)],
                           sorted_files(SubSeq(current_group, 1, Len(current_group) - 1),
                                        created),
                           created)

PreSelectedButFirst(i, n) == i > 1

\* the check mark of the i-th of n files, i counted from 1: (i < len(sorted_files)-1)
\* with i counted from 0
PreSelected(i, n) == i < n

\* update_duplicate_display: the check marks after the group is displayed; a file
\* displayed before keeps its mark
update_duplicate_display(file_selections, current_group, created) ==
    LET sorted == sorted_files(current_group, created)
    IN  [f \in (DOMAIN file_selections) \cup Range(sorted) |->
            IF f \in DOMAIN file_selections
            THEN file_selections[f]
            ELSE PreSelected(CHOOSE i \in DOMAIN sorted : sorted[i] = f, Len(sorted))]

\* [f for f in group if os.path.exists(f)]
Existing(current_group, exists) == SelectSeq(current_group, LAMBDA f : f \in exists)

RECURSIVE ExistingEach(_, _)
ExistingEach(groups, exists) ==
    IF groups = <<>> THEN <<>>
    ELSE <<Existing(Head(groups), exists)>> \o ExistingEach(Tail(groups), exists)

\* the dialog after a deletion left the groups `groups`: closed when none is
\* left, else the index is brought back into range and the group displayed
Redisplay(m, groups, selections, exists) ==
    IF groups = <<>>
    THEN [m EXCEPT !.op = "closed", !.duplicate_groups = groups,
                   !.file_selections = selections, !.exists = exists]
    ELSE LET idx == IF m.idx > Len(groups) THEN Len(groups) ELSE m.idx
         IN  [m EXCEPT !.duplicate_groups = groups, !.idx = idx, !.exists = exists,
                       !.file_selections =
                           update_duplicate_display(selections, groups[idx], m.created)]

\* delete_selected: the files checked in the group displayed are removed; a group
\* left with at most one file is taken off the list
delete_selected(m) ==
    LET selected_files == {f \in Range(m.duplicate_groups[m.idx]) : m.file_selections[f]}
        exists == m.exists \ selected_files
        current_group == Existing(m.duplicate_groups[m.idx], exists)
        groups == IF Len(current_group) <= 1
                  THEN SubSeq(m.duplicate_groups, 1, m.idx - 1)
                       \o SubSeq(m.duplicate_groups, m.idx + 1, Len(m.duplicate_groups))
                  ELSE [m.duplicate_groups EXCEPT ![m.idx] = current_group]
    IN  IF selected_files = {} THEN m
        ELSE Redisplay(m, groups, m.file_selections, exists)

\* delete_all_selected_global: every checked file that exists is removed and
\* leaves file_selections; groups left with at most one file are taken off
delete_all_selected_global(m) ==
    LET selected_files == {f \in DOMAIN m.file_selections :
                              m.file_selections[f] /\ f \in m.exists}
        exists == m.exists \ selected_files
        selections == [f \in (DOMAIN m.file_selections) \ selected_files |->
                          m.file_selections[f]]
        groups == SelectSeq(ExistingEach(m.duplicate_groups, exists), LAMBDA g : Len(g) > 1)
    IN  IF selected_files = {} THEN m
        ELSE Redisplay(m, groups, selections, exists)

DupFiles ==
    {Root \o <<Txt("a", <<>>)>>, Root \o <<Txt("b", <<>>)>>, Root \o <<Txt("c", <<>>)>>,
     Root \o <<Dir("sub"), Txt("a", <<>>)>>}

DupDates == {Date(2023, 12, 31), Date(2024, 5, 6)}

\* a group: two or more files, each once
DupGroups ==
    {g \in UNION {[1..n -> DupFiles] : n \in 2..Cardinality(DupFiles)} :
        \A i, j \in DOMAIN g : i # j => g[i] # g[j]}

\* list(duplicates.values()): one or two groups without a common file
DupGroupLists ==
    {<<g>> : g \in DupGroups}
        \cup {<<g, h>> : g \in {a \in DupGroups : Len(a) = 2},
                         h \in {b \in DupGroups : Len(b) = 2}}

InitDuplicates ==
    /\ InitTree(SmallTree)
    /\ include_subfolders = TRUE
    /\ delete_empty_folders = TRUE
    /\ path = Root
    /\ preview = <<>>
    /\ cancel_scan = FALSE
    /\ dialog = [id |-> 0, open |-> FALSE]
    /\ scan = <<>>
    /\ run = <<>>
    /\ wins = <<>>
    /\ afterQ = <<>>
    /\ faults = {}
    /\ executed = FALSE
    /\ removed = 0
    /\ options = DefaultOptions
    /\ probe \in {[op |-> "duplicates", duplicates |-> d, duplicate_groups |-> d, idx |-> 1,
                   file_selections |-> <<>>, exists |-> DupFiles, created |-> c] :
                     d \in {l \in DupGroupLists :
                               Len(l) = 2 => Range(l[1]) \cap Range(l[2]) = {}},
                     c \in [DupFiles -> DupDates]}

\* show_duplicate_manager(duplicates): the dialog opens on the first group
ApplyShowDuplicateManager ==
    /\ probe.op = "duplicates"
    /\ probe' = [probe EXCEPT
                    !.op = "shown",
                    !.file_selections =
                        update_duplicate_display(<<>>, probe.duplicate_groups[1],
                                                 probe.created)]
    /\ UNCHANGED appvars

\* button "Next >"
NextGroup ==
    /\ probe.op = "shown"
    /\ probe.idx < Len(probe.duplicate_groups)
    /\ probe' = [probe EXCEPT
                    !.idx = probe.idx + 1,
                    !.file_selections =
                        update_duplicate_display(probe.file_selections,
                                                 probe.duplicate_groups[probe.idx + 1],
                                                 probe.created)]
    /\ UNCHANGED appvars

\* button "< Previous"
PrevGroup ==
    /\ probe.op = "shown"
    /\ probe.idx > 1
    /\ probe' = [probe EXCEPT
                    !.idx = probe.idx - 1,
                    !.file_selections =
                        update_duplicate_display(probe.file_selections,
                                                 probe.duplicate_groups[probe.idx - 1],
                                                 probe.created)]
    /\ UNCHANGED appvars

\* button "Delete Selected", the question answered with Yes
ClickDeleteSelected ==
    /\ probe.op = "shown"
    /\ probe' = delete_selected(probe)
    /\ probe' # probe
    /\ UNCHANGED appvars

\* button "Delete All Selected", enabled while the last group is displayed, the
\* question answered with Yes
ClickDeleteAllSelected ==
    /\ probe.op = "shown"
    /\ probe.idx = Len(probe.duplicate_groups)
    /\ probe' = delete_all_selected_global(probe)
    /\ probe' # probe
    /\ UNCHANGED appvars

\* button "Close"
CloseManager ==
    /\ probe.op = "shown"
    /\ probe' = [probe EXCEPT !.op = "closed"]
    /\ UNCHANGED appvars

DuplicatesNext ==
    \/ ApplyShowDuplicateManager
    \/ NextGroup
    \/ PrevGroup
    \/ ClickDeleteSelected
    \/ ClickDeleteAllSelected
    \/ CloseManager

SpecDuplicates == InitDuplicates /\ [][DuplicatesNext]_vars

\* the members of group g no member is older than, and those no member is newer than
Oldest(g, created) == {m \in Range(g) : \A f \in Range(g) : ~Later(created[m], created[f])}

Newest(g, created) == {m \in Range(g) : \A f \in Range(g) : ~Later(created[f], created[m])}

\* the group displayed has every member but m checked
AllButChecked(m) ==
    \A f \in Range(probe.duplicate_groups[probe.idx]) : probe.file_selections[f] = (f # m)

\* the step deletes files, and of every group it deletes from, one file of
\* keep(group) is all it leaves
DeletionLeaves(keep(_)) ==
    probe.op = "shown" /\ probe'.exists # probe.exists
        => \A k \in DOMAIN probe.duplicate_groups :
               LET g == probe.duplicate_groups[k]
               IN  Range(g) \cap probe'.exists # Range(g)
                       => \E m \in keep(g) : Range(g) \cap probe'.exists = {m}

KeepNewest(g) == Newest(g, probe.created)

KeepOldest(g) == Oldest(g, probe.created)

\* C30 as stated: in the group the duplicate manager displays every member but
\* a newest one is checked for deletion, and deleting with these check marks
\* leaves exactly that newest file of the group
C30_KeepsNewest ==
    /\ [](probe.op = "shown"
            => \E m \in Newest(probe.duplicate_groups[probe.idx], probe.created) :
                   AllButChecked(m))
    /\ [][DeletionLeaves(KeepNewest)]_vars

\* C30 amended: in the group the duplicate manager displays every member but
\* the oldest one is checked for deletion, and deleting with these check marks
\* leaves exactly that oldest file of the group
C30_KeepsOldest ==
    /\ [](probe.op = "shown"
            => \E m \in Oldest(probe.duplicate_groups[probe.idx], probe.created) :
                   AllButChecked(m))
    /\ [][DeletionLeaves(KeepOldest)]_vars

\* a group of three files of two dates was displayed and one file is left of it
C30_Witness ==
    /\ probe.op \in {"shown", "closed"}
    /\ \E k \in DOMAIN probe.duplicates :
           LET g == probe.duplicates[k]
           IN  /\ Len(g) > 2
               /\ Oldest(g, probe.created) \cap Newest(g, probe.created) = {}
               /\ Cardinality(Range(g) \cap probe.exists) = 1

====
